---- MODULE Spec2Model ----
(***************************************************************************)
(* A model of the music tools of wfrl/misc:                                *)
(*   mivi.py      MidiParser: the Standard MIDI File decoder, the tempo    *)
(*                map and the NoteOn/NoteOff pairing;                      *)
(*   lilysynth.py Synth.parse and Synth._process_ties: the notation        *)
(*                parser with chords and ties.                             *)
(*                                                                         *)
(* Numbers.  Python floats are modelled by exact integers:                 *)
(*   - MIDI times are kept as seconds * 1000000 * ticks_per_beat, the      *)
(*     numerator of the sum the code accumulates (tick_to_seconds);        *)
(*   - notation beat lengths are kept in 1/UnitsPerBeat of a quarter note  *)
(*     and notation times in microseconds.                                 *)
(* A file object is the byte sequence `data` and the offset `pos`          *)
(* (f.tell()); a read past the end returns fewer bytes, as f.read does.    *)
(***************************************************************************)
EXTENDS Integers, Sequences, FiniteSets, TLC

VARIABLES
    pc,               \* position of the program
    data,             \* the bytes of the MIDI file
    pos,              \* f.tell()
    target_bpm,       \* MidiParser.target_bpm (0 stands for None)
    ticks_per_beat,   \* MidiParser.ticks_per_beat
    tracks_left,      \* iterations left of `for _ in range(num_tracks)`
    track_end,        \* _parse_track: track_end
    abs_tick,         \* _parse_track: abs_tick
    running_status,   \* _parse_track: running_status
    events,           \* _parse_track: events
    tempo_map,        \* MidiParser.tempo_map
    tracks_data,      \* MidiParser.tracks_data
    track_idx,        \* get_parsed_notes: index of track_events in tracks_data
    ev_idx,           \* get_parsed_notes: index of event in track_events
    active_notes,     \* get_parsed_notes: active_notes
    notes,            \* get_parsed_notes: notes
    track_color,      \* get_parsed_notes: track_color
    track_channel,    \* get_parsed_notes: track_channel
    processed_tracks, \* get_parsed_notes: processed_tracks
    bpm,                  \* Synth.bpm
    validate,             \* Synth.validate
    target_bar_len,       \* Synth.target_bar_len
    tokens,               \* Synth.parse: tokens
    tok_idx,              \* Synth.parse: index of token in tokens
    current_time,         \* Synth.parse: current_time
    last_duration_val,    \* Synth.parse: last_duration_val
    current_bar_duration, \* Synth.parse: current_bar_duration
    bar_counter,          \* Synth.parse: bar_counter
    in_chord,             \* Synth.parse: in_chord
    chord_start_time,     \* Synth.parse: chord_start_time
    chord_max_duration,   \* Synth.parse: chord_max_duration
    chord_max_beat_len,   \* Synth.parse: chord_max_beat_len
    chord_event_indices,  \* Synth.parse: chord_event_indices
    raw_events,           \* Synth.parse: raw_events
    warnings,             \* the bars for which parse printed a warning
    merged,               \* the list Synth.parse returns
    sample_rate,          \* Synth.sample_rate, MidiSynth.sample_rate
    overtones,            \* Synth.overtones, _generate_wave: overtones
    attack_time,          \* Synth.attack_time, MidiSynth.attack_time
    release_time,         \* Synth.release_time, MidiSynth.release_time
    instrument,           \* Synth.__init__: instrument
    wave,                 \* what _generate_wave returns
    audio_tracks,         \* save_mixed_wav: audio_tracks (track_buffers)
    gain,                 \* save_mixed_wav: gain, in 1/GainUnit
    mixed,                \* save_mixed_wav: mixed, before the scaling
    wav,                  \* the audio container written
    previous,             \* the results of the earlier calls
    input_lang,           \* DiatonicTransposer.input_lang
    output_lang,          \* DiatonicTransposer.output_lang
    text,                 \* transpose_text: text
    interval_steps,       \* transpose_text: interval_steps
    interval_semitones,   \* transpose_text: interval_semitones
    out_text              \* what transpose_text returns

parseVars == <<data, pos, target_bpm, ticks_per_beat, tracks_left, track_end,
               abs_tick, running_status, events>>
pairVars == <<track_idx, ev_idx, active_notes, notes, track_color,
              track_channel, processed_tracks>>
midiVars == <<parseVars, tempo_map, tracks_data, pairVars>>
synthVars == <<bpm, validate, target_bar_len, tokens>>
scoreVars == <<tok_idx, current_time, last_duration_val, current_bar_duration,
               bar_counter, in_chord, chord_start_time, chord_max_duration,
               chord_max_beat_len, chord_event_indices, raw_events, warnings>>
lilyVars == <<synthVars, scoreVars, merged>>
voiceVars == <<attack_time, release_time, instrument>>
audioVars == <<sample_rate, overtones, voiceVars, wave,
              audio_tracks, gain, mixed, wav>>
transVars == <<input_lang, output_lang, text, interval_steps,
               interval_semitones, out_text>>
vars == <<pc, midiVars, lilyVars, audioVars, previous, transVars>>

----------------------------------------------------------------------------
(* Bounds of the model. *)

\* chunks (delta time + event bytes) per generated MIDI file
MaxChunks == 3
\* bytes in the body of a track drawn byte by byte
MaxBody == 3
\* events per track when track event lists are drawn directly
MaxTrackEvents == 4
\* ticks over which the tick-to-seconds conversion is compared
MaxTick == 40
\* tokens per score
MaxTokens == 4
\* buffers per list of track buffers
MaxBuffers == 2
\* samples per track buffer
MaxSamples == 2
\* the number of voices rendered into one file
MaxVoices == 2
\* the number of tokens of a rendered voice
MaxVoiceTokens == 2
\* the number of calls of get_parsed_notes and of parse on one object
MaxCalls == 2
\* the number of bytes of a file that holds a variable-length quantity
MaxVlqBytes == 4
\* the number of tracks that are rendered by one MidiSynth
MaxTracks == 3
\* the number of members of a chord that is closed with a tie, and the
\* number of tokens behind it
MaxMembers == 2
MaxFollowers == 3

(* Program constants. *)
DefaultTempo == 500000
DefaultTicksPerBeat == 480
MicrosPerMinute == 60000000
\* last_duration_val before the first duration number
DefaultDuration == 4
\* sample_rate=44100
DefaultSampleRate == 44100
\* Synth.release_time and the tail of get_audio_data, in microseconds
ReleaseTime == 200000
\* Synth.attack_time and MidiSynth.attack_time, in microseconds
AttackTime == 50000
TailTime == 500000
\* the sample rate of the voices that are rendered
RenderRate == 10
\* self.release_time = 0.1 of MidiSynth.__init__, in microseconds
MidiReleaseTime == 100000
\* the 1.0 s of total_len_sec in generate_track_audio
MidiTailTime == 1000000
\* the duration 0.05 s of a drum note
DrumDuration == 50000
\* gains are counted in 1/GainUnit
GainUnit == 10
\* gain=0.8 of save_mixed_wav
DefaultGain == 8
\* the 90% level of save_mixed_audio
MidiGain == 9
\* full scale of a 16-bit sample
FullScale == 32767

Min(a, b) == IF a < b THEN a ELSE b
Max(a, b) == IF a > b THEN a ELSE b
SetMin(S) == CHOOSE x \in S : \A y \in S : x <= y
SetMax(S) == IF S = {} THEN 0 ELSE CHOOSE x \in S : \A y \in S : x >= y
Abs(x) == IF x < 0 THEN 0 - x ELSE x

----------------------------------------------------------------------------
(* Bytes and file reads. *)

MThd == <<77, 84, 104, 100>>
MTrk == <<77, 84, 114, 107>>

\* f.read(n) at offset p: the bytes read (fewer at the end of the file)
read(p, n) == SubSeq(data, p + 1, Min(p + n, Len(data)))
\* f.tell() after f.read(n) at offset p
tell_after(p, n) == Min(p + n, Len(data))

RECURSIVE int_from_bytes(_)
\* int.from_bytes(bs, byteorder='big')
int_from_bytes(bs) ==
    IF bs = <<>> THEN 0
    ELSE 256 * int_from_bytes(SubSeq(bs, 1, Len(bs) - 1)) + bs[Len(bs)]

\* _read_int_be(f, size) at offset p
read_int_be(p, size) == int_from_bytes(read(p, size))

RECURSIVE read_vlq_unmasked(_, _)
\* read_vlq_from with the whole byte taken as the group
read_vlq_unmasked(p, value) ==
    IF p >= Len(data) THEN [value |-> value, pos |-> p]
    ELSE LET byte == data[p + 1]
             v    == value * 128 + byte
         IN  IF byte < 128 THEN [value |-> v, pos |-> p + 1]
             ELSE read_vlq_unmasked(p + 1, v)

RECURSIVE read_vlq_from(_, _)
read_vlq_from(p, value) ==
    IF p >= Len(data) THEN [value |-> value, pos |-> p]
    ELSE LET byte == data[p + 1]
             v    == value * 128 + (byte % 128)
         IN  IF byte < 128 THEN [value |-> v, pos |-> p + 1]
             ELSE read_vlq_from(p + 1, v)

\* _read_variable_length(f) at offset p: the value and f.tell() afterwards
read_variable_length(p) == read_vlq_from(p, 0)

----------------------------------------------------------------------------
(* MidiParser._parse_track: one iteration of the event loop.               *)

\* the result of one iteration; err: an exception left the loop (ord(b'')),
\* brk: the End-of-Track meta event left it
LoopResult(p, tick, rs, evs, tm, brk) ==
    [err |-> FALSE, brk |-> brk, pos |-> p, abs_tick |-> tick,
     running_status |-> rs, events |-> evs, tempo_map |-> tm]

Raised ==
    [err |-> TRUE, brk |-> FALSE, pos |-> pos, abs_tick |-> abs_tick,
     running_status |-> running_status, events |-> events,
     tempo_map |-> tempo_map]

\* data_bytes = {0xF1: 1, 0xF2: 2, 0xF3: 1}
common_data_bytes(status) == IF status = 242 THEN 2 ELSE 1

\* channel_event with a NoteOn of velocity 0 kept as a NoteOn
channel_event_keep_zero(status, p, tick, rs) ==
    LET channel == status % 16
        cmd     == (status \div 16) * 16
    IN  IF cmd = 128 \/ cmd = 144
        THEN IF p + 1 >= Len(data) THEN Raised
             ELSE LET note == data[p + 1]
                      vel  == data[p + 2]
                      off  == [tick |-> tick, type |-> "note_off",
                               note |-> note, ch |-> channel]
                      on   == [tick |-> tick, type |-> "note_on",
                               note |-> note, ch |-> channel, vel |-> vel]
                  IN  IF cmd = 128
                      THEN LoopResult(p + 2, tick, rs, Append(events, off),
                                      tempo_map, FALSE)
                      ELSE LoopResult(p + 2, tick, rs, Append(events, on),
                                      tempo_map, FALSE)
        ELSE IF cmd = 160 \/ cmd = 176 \/ cmd = 224
        THEN LoopResult(tell_after(p, 2), tick, rs, events, tempo_map, FALSE)
        ELSE LoopResult(tell_after(p, 1), tick, rs, events, tempo_map, FALSE)

\* the branch `if 0x80 <= status <= 0xEF` at offset p
channel_event(status, p, tick, rs) ==
    LET channel == status % 16
        cmd     == (status \div 16) * 16
    IN  IF cmd = 128 \/ cmd = 144
        THEN IF p + 1 >= Len(data) THEN Raised
             ELSE LET note == data[p + 1]
                      vel  == data[p + 2]
                      off  == [tick |-> tick, type |-> "note_off",
                               note |-> note, ch |-> channel]
                      on   == [tick |-> tick, type |-> "note_on",
                               note |-> note, ch |-> channel, vel |-> vel]
                  IN  IF cmd = 128 \/ vel = 0
                      THEN LoopResult(p + 2, tick, rs, Append(events, off),
                                      tempo_map, FALSE)
                      ELSE LoopResult(p + 2, tick, rs, Append(events, on),
                                      tempo_map, FALSE)
        ELSE IF cmd = 160 \/ cmd = 176 \/ cmd = 224
        THEN LoopResult(tell_after(p, 2), tick, rs, events, tempo_map, FALSE)
        ELSE LoopResult(tell_after(p, 1), tick, rs, events, tempo_map, FALSE)

\* the branch `elif status == 0xF0 or status == 0xF7` at offset p
sysex_event(p, tick) ==
    LET length == read_variable_length(p)
    IN  LoopResult(tell_after(length.pos, length.value), tick, 0, events,
                   tempo_map, FALSE)

\* meta_event without the break at End of Track
meta_event_no_break(p, tick) ==
    IF p >= Len(data) THEN Raised
    ELSE LET type_code == data[p + 1]
             length    == read_variable_length(p + 1)
             payload   == read(length.pos, length.value)
             p_end     == tell_after(length.pos, length.value)
         IN  IF type_code = 81
             THEN LoopResult(p_end, tick, 0, events,
                      Append(tempo_map, <<tick, int_from_bytes(payload)>>),
                      FALSE)
             ELSE LoopResult(p_end, tick, 0, events, tempo_map, FALSE)

\* the branch `elif status == 0xFF` at offset p
meta_event(p, tick) ==
    IF p >= Len(data) THEN Raised
    ELSE LET type_code == data[p + 1]
             length    == read_variable_length(p + 1)
             payload   == read(length.pos, length.value)
             p_end     == tell_after(length.pos, length.value)
         IN  IF type_code = 81
             THEN LoopResult(p_end, tick, 0, events,
                      Append(tempo_map, <<tick, int_from_bytes(payload)>>),
                      FALSE)
             ELSE LoopResult(p_end, tick, 0, events, tempo_map,
                             type_code = 47)

\* parse_event without the f.seek(-1, 1) of the running-status branch
parse_event_no_rewind ==
    LET delta == read_variable_length(pos)
        tick  == abs_tick + delta.value
        p1    == delta.pos
    IN  IF p1 >= Len(data) THEN Raised
        ELSE LET byte   == data[p1 + 1]
                 status == IF byte >= 128 THEN byte ELSE running_status
                 rs1    == IF byte >= 128 THEN byte ELSE running_status
                 p2     == p1 + 1
                 common == status >= 241 /\ status <= 243
                 p3     == IF common
                           THEN tell_after(p2, common_data_bytes(status))
                           ELSE p2
                 rs2    == IF common THEN 0 ELSE rs1
             IN  IF status >= 128 /\ status <= 239
                 THEN channel_event(status, p3, tick, rs2)
                 ELSE IF status = 240 \/ status = 247
                 THEN sysex_event(p3, tick)
                 ELSE IF status = 255
                 THEN meta_event(p3, tick)
                 ELSE LoopResult(p3, tick, rs2, events, tempo_map, FALSE)

\* parse_event with the rewind going back over the delta time as well
parse_event_rewind_all ==
    LET delta == read_variable_length(pos)
        tick  == abs_tick + delta.value
        p1    == delta.pos
    IN  IF p1 >= Len(data) THEN Raised
        ELSE LET byte   == data[p1 + 1]
                 status == IF byte >= 128 THEN byte ELSE running_status
                 rs1    == IF byte >= 128 THEN byte ELSE running_status
                 p2     == IF byte >= 128 THEN p1 + 1 ELSE pos
                 common == status >= 241 /\ status <= 243
                 p3     == IF common
                           THEN tell_after(p2, common_data_bytes(status))
                           ELSE p2
                 rs2    == IF common THEN 0 ELSE rs1
             IN  IF status >= 128 /\ status <= 239
                 THEN channel_event(status, p3, tick, rs2)
                 ELSE IF status = 240 \/ status = 247
                 THEN sysex_event(p3, tick)
                 ELSE IF status = 255
                 THEN meta_event(p3, tick)
                 ELSE LoopResult(p3, tick, rs2, events, tempo_map, FALSE)

\* parse_event with the running status kept over a system-common message
parse_event_common_keeps_status ==
    LET delta == read_variable_length(pos)
        tick  == abs_tick + delta.value
        p1    == delta.pos
    IN  IF p1 >= Len(data) THEN Raised
        ELSE LET byte   == data[p1 + 1]
                 status == IF byte >= 128 THEN byte ELSE running_status
                 common == status >= 241 /\ status <= 243
                 rs1    == IF byte >= 128 /\ ~common THEN byte
                           ELSE running_status
                 p2     == IF byte >= 128 THEN p1 + 1 ELSE p1
                 p3     == IF common
                           THEN tell_after(p2, common_data_bytes(status))
                           ELSE p2
             IN  IF status >= 128 /\ status <= 239
                 THEN channel_event(status, p3, tick, rs1)
                 ELSE IF status = 240 \/ status = 247
                 THEN sysex_event(p3, tick)
                 ELSE IF status = 255
                 THEN meta_event(p3, tick)
                 ELSE LoopResult(p3, tick, rs1, events, tempo_map, FALSE)

\* the body of `while f.tell() < track_end`
parse_event ==
    LET delta == read_variable_length(pos)
        tick  == abs_tick + delta.value
        p1    == delta.pos
    IN  IF p1 >= Len(data) THEN Raised
        ELSE LET byte   == data[p1 + 1]
                 status == IF byte >= 128 THEN byte ELSE running_status
                 rs1    == IF byte >= 128 THEN byte ELSE running_status
                 p2     == IF byte >= 128 THEN p1 + 1 ELSE p1
                 common == status >= 241 /\ status <= 243
                 p3     == IF common
                           THEN tell_after(p2, common_data_bytes(status))
                           ELSE p2
                 rs2    == IF common THEN 0 ELSE rs1
             IN  IF status >= 128 /\ status <= 239
                 THEN channel_event(status, p3, tick, rs2)
                 ELSE IF status = 240 \/ status = 247
                 THEN sysex_event(p3, tick)
                 ELSE IF status = 255
                 THEN meta_event(p3, tick)
                 ELSE LoopResult(p3, tick, rs2, events, tempo_map, FALSE)

RECURSIVE find_chunk(_)
\* the scan for the next b'MTrk' in steps of four bytes: the offset behind
\* the tag, or -1 at the end of the file
find_chunk(p) ==
    IF p >= Len(data) THEN -1
    ELSE IF read(p, 4) = MTrk THEN p + 4
    ELSE find_chunk(tell_after(p, 4))

----------------------------------------------------------------------------
(* The tempo map. *)

RECURSIVE insert_by_tick(_, _)
\* s with e put behind every element whose tick is <= the tick of e
insert_by_tick(s, e) ==
    IF s = <<>> THEN <<e>>
    ELSE IF s[Len(s)][1] <= e[1] THEN Append(s, e)
    ELSE Append(insert_by_tick(SubSeq(s, 1, Len(s) - 1), e), s[Len(s)])

RECURSIVE sort_by_tick(_)
\* tempo_map.sort(key=lambda x: x[0]): a stable sort
sort_by_tick(s) ==
    IF s = <<>> THEN <<>>
    ELSE insert_by_tick(sort_by_tick(SubSeq(s, 1, Len(s) - 1)), s[Len(s)])

\* final_tempo_map with the override put in front of the map of the file
final_tempo_map_keep(tm, override) ==
    IF override > 0 THEN << <<0, MicrosPerMinute \div override>> >> \o tm
    ELSE sort_by_tick(IF tm = <<>> THEN << <<0, DefaultTempo>> >> ELSE tm)

\* final_tempo_map without the sort
final_tempo_map_unsorted(tm, override) ==
    IF override > 0 THEN << <<0, MicrosPerMinute \div override>> >>
    ELSE IF tm = <<>> THEN << <<0, DefaultTempo>> >> ELSE tm

\* the end of _parse_file: BPM override, or default tempo and sort
final_tempo_map(tm, override) ==
    IF override > 0 THEN << <<0, MicrosPerMinute \div override>> >>
    ELSE sort_by_tick(IF tm = <<>> THEN << <<0, DefaultTempo>> >> ELSE tm)

RECURSIVE tick_walk_new_rate(_, _, _, _, _, _)
\* tick_walk with a breakpoint's tempo applied to the span before it
tick_walk_new_rate(tm, i, target_tick, time, current_tick, micros) ==
    IF i > Len(tm) \/ tm[i][1] > target_tick
    THEN time + (target_tick - current_tick) * micros
    ELSE tick_walk_new_rate(tm, i + 1, target_tick,
                   time + (tm[i][1] - current_tick) * tm[i][2],
                   tm[i][1], tm[i][2])

RECURSIVE tick_walk_restart(_, _, _, _, _, _)
\* tick_walk with the time counted from the last breakpoint passed
tick_walk_restart(tm, i, target_tick, time, current_tick, micros) ==
    IF i > Len(tm) \/ tm[i][1] > target_tick
    THEN time + (target_tick - current_tick) * micros
    ELSE tick_walk_restart(tm, i + 1, target_tick, 0, tm[i][1], tm[i][2])

RECURSIVE tick_walk(_, _, _, _, _, _)
\* the loop of _tick_to_seconds from entry i of the map tm on
tick_walk(tm, i, target_tick, time, current_tick, micros) ==
    IF i > Len(tm) \/ tm[i][1] > target_tick
    THEN time + (target_tick - current_tick) * micros
    ELSE tick_walk(tm, i + 1, target_tick,
                   time + (tm[i][1] - current_tick) * micros,
                   tm[i][1], tm[i][2])

\* _tick_to_seconds(target_tick) over the map tm, as
\* seconds * 1000000 * ticks_per_beat
tick_to_seconds_in(tm, target_tick) ==
    tick_walk(tm, 1, target_tick, 0, 0, DefaultTempo)

tick_to_seconds(target_tick) == tick_to_seconds_in(tempo_map, target_tick)

----------------------------------------------------------------------------
(* MidiParser.get_parsed_notes: the pairing of NoteOn and NoteOff. *)

\* channel_colors.get(ch, ((ch * 50) % 255, (ch * 80) % 255, 200))
channel_color(ch) ==
    CASE ch = 0 -> <<0, 220, 220>>
      [] ch = 1 -> <<255, 0, 200>>
      [] ch = 2 -> <<255, 220, 0>>
      [] ch = 3 -> <<0, 200, 100>>
      [] ch = 9 -> <<150, 150, 150>>
      [] OTHER  -> <<(ch * 50) % 255, (ch * 80) % 255, 200>>

DefaultColor == <<200, 200, 200>>
NoActiveNotes == [key \in {} |-> <<0, 0>>]

\* the state of the loop over one track at its start
\* the start of an iteration that keeps the notes left open before
pair_start_stale ==
    [active_notes |-> active_notes, notes |-> <<>>,
     track_color |-> DefaultColor, track_channel |-> 0]

\* the start of an iteration that keeps the notes of the track before
pair_start_keep_notes ==
    [active_notes |-> NoActiveNotes, notes |-> notes,
     track_color |-> DefaultColor, track_channel |-> 0]

pair_start ==
    [active_notes |-> NoActiveNotes, notes |-> <<>>,
     track_color |-> DefaultColor, track_channel |-> 0]

\* pair_note_on that leaves an unmatched key as it is
pair_note_on_keep_first(st, event) ==
    LET key == <<event.ch, event.note>>
        act == [k \in DOMAIN st.active_notes \cup {key} |->
                   IF k = key /\ key \notin DOMAIN st.active_notes
                   THEN <<event.tick, event.vel>>
                   ELSE st.active_notes[k]]
    IN  IF st.track_color = DefaultColor
        THEN [st EXCEPT !.active_notes = act,
                        !.track_channel = event.ch,
                        !.track_color = channel_color(event.ch)]
        ELSE [st EXCEPT !.active_notes = act]

\* the branch `if evt_type == 'note_on'`
pair_note_on(st, event) ==
    LET key == <<event.ch, event.note>>
        act == [k \in DOMAIN st.active_notes \cup {key} |->
                   IF k = key THEN <<event.tick, event.vel>>
                   ELSE st.active_notes[k]]
    IN  IF st.track_color = DefaultColor
        THEN [st EXCEPT !.active_notes = act,
                        !.track_channel = event.ch,
                        !.track_color = channel_color(event.ch)]
        ELSE [st EXCEPT !.active_notes = act]

\* the note a NoteOff emits for the onset (start_tick, vel)
closed_note(event, start_tick, vel) ==
    LET start_sec == tick_to_seconds(start_tick)
        end_sec   == tick_to_seconds(event.tick)
    IN  [midi |-> event.note, start |-> start_sec,
         dur |-> end_sec - start_sec, vel |-> vel, ch |-> event.ch,
         color |-> channel_color(event.ch)]

\* pair_note_off with active_notes[key] read and not popped
pair_note_off_keep_key(st, event) ==
    LET key == <<event.ch, event.note>>
    IN  IF key \in DOMAIN st.active_notes
        THEN [st EXCEPT !.notes =
                 Append(st.notes, closed_note(event, st.active_notes[key][1],
                                              st.active_notes[key][2]))]
        ELSE st

\* pair_note_off with the key looked up by pitch alone
pair_note_off_any_channel(st, event) ==
    LET keys == {k \in DOMAIN st.active_notes : k[2] = event.note}
    IN  IF keys # {}
        THEN LET key == CHOOSE k \in keys : TRUE
             IN  [st EXCEPT
                    !.active_notes =
                        [k \in DOMAIN st.active_notes \ {key} |->
                            st.active_notes[k]],
                    !.notes = Append(st.notes,
                        closed_note(event, st.active_notes[key][1],
                                    st.active_notes[key][2]))]
        ELSE st

\* pair_note_off with notes.insert(0, ...) in place of notes.append(...)
pair_note_off_prepend(st, event) ==
    LET key == <<event.ch, event.note>>
    IN  IF key \in DOMAIN st.active_notes
        THEN [st EXCEPT
                !.active_notes =
                    [k \in DOMAIN st.active_notes \ {key} |->
                        st.active_notes[k]],
                !.notes = <<closed_note(event, st.active_notes[key][1],
                                        st.active_notes[key][2])>> \o st.notes]
        ELSE st

\* the branch `elif evt_type == 'note_off'`
pair_note_off(st, event) ==
    LET key == <<event.ch, event.note>>
    IN  IF key \in DOMAIN st.active_notes
        THEN LET start_tick == st.active_notes[key][1]
                 vel        == st.active_notes[key][2]
                 note       == closed_note(event, start_tick, vel)
             IN  [st EXCEPT
                    !.active_notes =
                        [k \in DOMAIN st.active_notes \ {key} |->
                            st.active_notes[k]],
                    !.notes = Append(st.notes, note)]
        ELSE st

\* the body of `for event in track_events`
pair_event(st, event) ==
    IF event.type = "note_on" THEN pair_note_on(st, event)
    ELSE IF event.type = "note_off" THEN pair_note_off(st, event)
    ELSE st

RECURSIVE pair_from(_, _, _)
pair_from(st, track_events, i) ==
    IF i > Len(track_events) THEN st
    ELSE pair_from(pair_event(st, track_events[i]), track_events, i + 1)

\* the notes get_parsed_notes builds for one track
track_notes(track_events) == pair_from(pair_start, track_events, 1).notes

----------------------------------------------------------------------------
(* The MIDI files the decoder is run on: a header chunk and one or two     *)
(* track chunks, each track a concatenation of delta-time + event chunks.  *)

RECURSIVE Flatten(_)
Flatten(ss) == IF ss = <<>> THEN <<>> ELSE Head(ss) \o Flatten(Tail(ss))

SeqsUpTo(S, n) == UNION {[1..k -> S] : k \in 0..n}

\* MThd, length 6, format 1, num_tracks, division
HeaderChunk(num_tracks, division) ==
    MThd \o <<0, 0, 0, 6>> \o <<0, 1>> \o <<0, num_tracks>>
         \o <<division \div 256, division % 256>>

\* MTrk, the byte length of the body, the body
TrackChunk(body) == MTrk \o <<0, 0, 0, Len(body)>> \o body

NoteOn60    == <<0, 144, 60, 100>>            \* delta 0, NoteOn ch 0, 60, 100
Running61   == <<10, 61, 100>>                \* delta 10, data bytes only
NoteOff60   == <<10, 128, 60, 0>>             \* delta 10, NoteOff ch 0, 60
Tempo500000 == <<0, 255, 81, 3, 7, 161, 32>>  \* delta 0, tempo 500000
Tempo200000 == <<10, 255, 81, 3, 3, 13, 64>>  \* delta 10, tempo 200000
EndOfTrack  == <<0, 255, 47, 0>>              \* delta 0, End of Track

Chunks == {NoteOn60, Running61, NoteOff60, Tempo500000, Tempo200000,
           EndOfTrack}

MidiFiles ==
    LET bodies == SeqsUpTo(Chunks, MaxChunks)
        hdr(n) == HeaderChunk(n, DefaultTicksPerBeat)
    IN  {hdr(n) \o TrackChunk(Flatten(a)) : n \in {1, 2}, a \in bodies}
        \cup
        {hdr(2) \o TrackChunk(Flatten(ab[1])) \o TrackChunk(Flatten(ab[2])) :
            ab \in {x \in bodies \X bodies : Len(x[1]) + Len(x[2]) <= MaxChunks}}

\* the values of the --bpm option; 0 stands for its absence (None)
TargetBpms == {0, 70}

----------------------------------------------------------------------------
(* Initial states. *)

ParseIdle ==
    /\ data = <<>> /\ pos = 0 /\ target_bpm = 0
    /\ ticks_per_beat = DefaultTicksPerBeat
    /\ tracks_left = 0 /\ track_end = 0 /\ abs_tick = 0
    /\ running_status = 0 /\ events = <<>>

PairIdle ==
    /\ track_idx = 1 /\ ev_idx = 1
    /\ active_notes = NoActiveNotes /\ notes = <<>>
    /\ track_color = DefaultColor /\ track_channel = 0
    /\ processed_tracks = <<>>

ScoreIdle ==
    /\ tok_idx = 1 /\ current_time = 0 /\ last_duration_val = DefaultDuration
    /\ current_bar_duration = 0 /\ bar_counter = 1
    /\ in_chord = FALSE /\ chord_start_time = 0
    /\ chord_max_duration = 0 /\ chord_max_beat_len = 0
    /\ chord_event_indices = <<>> /\ raw_events = <<>>
    /\ warnings = <<>>

LilyIdle ==
    /\ bpm = 100 /\ validate = TRUE /\ target_bar_len = 0
    /\ tokens = <<>> /\ ScoreIdle /\ merged = <<>>

\* instrument=None
NoInstrument == "None"

\* self.attack_time = 0.05 and self.release_time = 0.2 of Synth.__init__
\* without an instrument
VoiceIdle ==
    /\ attack_time = AttackTime /\ release_time = ReleaseTime
    /\ instrument = NoInstrument

\* no file written
NoFile == [written |-> FALSE]
\* _generate_wave not called
NoWave == [called |-> FALSE]

AudioIdle ==
    /\ sample_rate = DefaultSampleRate /\ overtones = <<>> /\ wave = NoWave
    /\ VoiceIdle
    /\ audio_tracks = <<>> /\ gain = DefaultGain /\ mixed = <<>>
    /\ wav = NoFile

\* no DiatonicTransposer made
TransIdle ==
    /\ input_lang = "en" /\ output_lang = "en" /\ text = <<>>
    /\ interval_steps = 0 /\ interval_semitones = 0 /\ out_text = <<>>

\* MidiParser(filename, target_bpm) before _parse_file
Init ==
    /\ pc = "header"
    /\ data \in MidiFiles
    /\ pos = 0
    /\ target_bpm \in TargetBpms
    /\ ticks_per_beat = DefaultTicksPerBeat
    /\ tracks_left = 0 /\ track_end = 0 /\ abs_tick = 0
    /\ running_status = 0 /\ events = <<>>
    /\ tempo_map = <<>> /\ tracks_data = <<>>
    /\ PairIdle
    /\ LilyIdle
    /\ AudioIdle
    /\ previous = <<>>
    /\ TransIdle

----------------------------------------------------------------------------
(* MidiParser._parse_file and _parse_track. *)

\* ParseHeader without the checks of the tag and of the division
ParseHeaderUnchecked ==
    /\ pc = "header"
    /\ pc' = "find_track"
    /\ pos' = tell_after(0, 14)
    /\ ticks_per_beat' = read_int_be(12, 2)
    /\ tracks_left' = read_int_be(10, 2)
    /\ UNCHANGED <<data, target_bpm, track_end, abs_tick, running_status,
                   events, tempo_map, tracks_data, pairVars, lilyVars,
                   audioVars, previous,
                   transVars>>

\* _parse_file up to the loop over the tracks
ParseHeader ==
    /\ pc = "header"
    /\ LET num_tracks == read_int_be(10, 2)
           division   == read_int_be(12, 2)
       IN  IF read(0, 4) # MThd
           THEN /\ pc' = "error"
                /\ pos' = tell_after(0, 4)
                /\ UNCHANGED <<ticks_per_beat, tracks_left>>
           ELSE IF (division \div 32768) % 2 = 1
           THEN /\ pc' = "error"
                /\ pos' = tell_after(0, 14)
                /\ UNCHANGED <<ticks_per_beat, tracks_left>>
           ELSE /\ pc' = "find_track"
                /\ pos' = tell_after(0, 14)
                /\ ticks_per_beat' = division
                /\ tracks_left' = num_tracks
    /\ UNCHANGED <<data, target_bpm, track_end, abs_tick, running_status,
                   events, tempo_map, tracks_data, pairVars, lilyVars, audioVars, previous,
                   transVars>>

\* _parse_track up to the event loop: the search for the track chunk
FindTrack ==
    /\ pc = "find_track"
    /\ tracks_left > 0
    /\ LET found == find_chunk(pos)
       IN  IF found = -1
           THEN /\ pos' = Len(data)
                /\ tracks_left' = tracks_left - 1
                /\ UNCHANGED <<pc, track_end, abs_tick, running_status,
                               events>>
           ELSE /\ pc' = "events"
                /\ pos' = tell_after(found, 4)
                /\ track_end' = tell_after(found, 4) + read_int_be(found, 4)
                /\ abs_tick' = 0
                /\ running_status' = 0
                /\ events' = <<>>
                /\ UNCHANGED tracks_left
    /\ UNCHANGED <<data, target_bpm, ticks_per_beat, tempo_map, tracks_data,
                   pairVars, lilyVars, audioVars, previous,
                   transVars>>

\* one iteration of `while f.tell() < track_end`
ParseEvent ==
    /\ pc = "events"
    /\ pos < track_end
    /\ LET r == parse_event
       IN  /\ pc' = IF r.err THEN "error"
                    ELSE IF r.brk THEN "track_done" ELSE "events"
           /\ pos' = r.pos
           /\ abs_tick' = r.abs_tick
           /\ running_status' = r.running_status
           /\ events' = r.events
           /\ tempo_map' = r.tempo_map
    /\ UNCHANGED <<data, target_bpm, ticks_per_beat, tracks_left, track_end,
                   tracks_data, pairVars, lilyVars, audioVars, previous,
                   transVars>>

\* the end of _parse_track: self.tracks_data.append(events)
EndTrack ==
    /\ \/ pc = "events" /\ pos >= track_end
       \/ pc = "track_done"
    /\ pc' = "find_track"
    /\ tracks_data' = Append(tracks_data, events)
    /\ tracks_left' = tracks_left - 1
    /\ UNCHANGED <<data, pos, target_bpm, ticks_per_beat, track_end, abs_tick,
                   running_status, events, tempo_map, pairVars, lilyVars, audioVars, previous,
                   transVars>>

\* the end of _parse_file
FinishFile ==
    /\ pc = "find_track"
    /\ tracks_left = 0
    /\ pc' = "parsed"
    /\ tempo_map' = final_tempo_map(tempo_map, target_bpm)
    /\ UNCHANGED <<parseVars, tracks_data, pairVars, lilyVars, audioVars, previous,
                   transVars>>

----------------------------------------------------------------------------
(* MidiParser.get_parsed_notes. *)

GetParsedNotes ==
    /\ pc = "parsed"
    /\ pc' = "next_track"
    /\ track_idx' = 1
    /\ processed_tracks' = <<>>
    /\ UNCHANGED <<parseVars, tempo_map, tracks_data, ev_idx, active_notes,
                   notes, track_color, track_channel, lilyVars, audioVars, previous,
                   transVars>>

\* `for track_events in self.tracks_data`: the start of an iteration
BeginTrack ==
    /\ pc = "next_track"
    /\ track_idx <= Len(tracks_data)
    /\ pc' = "pairing"
    /\ ev_idx' = 1
    /\ active_notes' = pair_start.active_notes
    /\ notes' = pair_start.notes
    /\ track_color' = pair_start.track_color
    /\ track_channel' = pair_start.track_channel
    /\ UNCHANGED <<parseVars, tempo_map, tracks_data, track_idx,
                   processed_tracks, lilyVars, audioVars, previous,
                   transVars>>

\* `for event in track_events`: one iteration
PairEvent ==
    /\ pc = "pairing"
    /\ ev_idx <= Len(tracks_data[track_idx])
    /\ LET st == [active_notes |-> active_notes, notes |-> notes,
                  track_color |-> track_color,
                  track_channel |-> track_channel]
           r  == pair_event(st, tracks_data[track_idx][ev_idx])
       IN  /\ active_notes' = r.active_notes
           /\ notes' = r.notes
           /\ track_color' = r.track_color
           /\ track_channel' = r.track_channel
    /\ ev_idx' = ev_idx + 1
    /\ UNCHANGED <<pc, parseVars, tempo_map, tracks_data, track_idx,
                   processed_tracks, lilyVars, audioVars, previous,
                   transVars>>

\* the end of an iteration: `if notes: processed_tracks.append(...)`
FinishTrack ==
    /\ pc = "pairing"
    /\ ev_idx > Len(tracks_data[track_idx])
    /\ pc' = "next_track"
    /\ processed_tracks' =
          IF notes # <<>>
          THEN Append(processed_tracks,
                      [notes |-> notes, color |-> track_color,
                       channel |-> track_channel])
          ELSE processed_tracks
    /\ track_idx' = track_idx + 1
    /\ UNCHANGED <<parseVars, tempo_map, tracks_data, ev_idx, active_notes,
                   notes, track_color, track_channel, lilyVars, audioVars, previous,
                   transVars>>

\* return processed_tracks
ReturnTracks ==
    /\ pc = "next_track"
    /\ track_idx > Len(tracks_data)
    /\ pc' = "done"
    /\ UNCHANGED <<midiVars, lilyVars, audioVars, previous,
                   transVars>>

Next ==
    \/ ParseHeader
    \/ FindTrack
    \/ ParseEvent
    \/ EndTrack
    \/ FinishFile
    \/ GetParsedNotes
    \/ BeginTrack
    \/ PairEvent
    \/ FinishTrack
    \/ ReturnTracks

Spec == Init /\ [][Next]_vars

----------------------------------------------------------------------------
(* get_parsed_notes on track event lists drawn directly: the events of     *)
(* one track with non-decreasing ticks, as _parse_track builds them.       *)

EventSteps ==
    {[delta |-> 0,  type |-> "note_on",  ch |-> 0, note |-> 60, vel |-> 100],
     [delta |-> 10, type |-> "note_on",  ch |-> 0, note |-> 60, vel |-> 80],
     [delta |-> 10, type |-> "note_on",  ch |-> 0, note |-> 61, vel |-> 100],
     [delta |-> 10, type |-> "note_off", ch |-> 0, note |-> 60],
     [delta |-> 10, type |-> "note_off", ch |-> 0, note |-> 61],
     [delta |-> 0,  type |-> "note_off", ch |-> 0, note |-> 60],
     [delta |-> 10, type |-> "note_off", ch |-> 1, note |-> 60]}

RECURSIVE TickAfter(_, _)
\* abs_tick after the first n steps
TickAfter(steps, n) ==
    IF n = 0 THEN 0 ELSE TickAfter(steps, n - 1) + steps[n].delta

\* the event list _parse_track builds from the steps
TrackOf(steps) ==
    [i \in 1..Len(steps) |->
        IF steps[i].type = "note_on"
        THEN [tick |-> TickAfter(steps, i), type |-> "note_on",
              note |-> steps[i].note, ch |-> steps[i].ch,
              vel |-> steps[i].vel]
        ELSE [tick |-> TickAfter(steps, i), type |-> "note_off",
              note |-> steps[i].note, ch |-> steps[i].ch]]

TrackLists == {TrackOf(steps) : steps \in SeqsUpTo(EventSteps, MaxTrackEvents)}

\* tempo maps as _parse_file leaves them (sorted by tick)
TempoMaps ==
    {<< <<0, DefaultTempo>> >>,
     << <<0, DefaultTempo>>, <<15, 200000>> >>}

InitPair ==
    /\ pc = "parsed"
    /\ ParseIdle
    /\ tempo_map \in TempoMaps
    /\ tracks_data \in {<<t>> : t \in TrackLists}
    /\ PairIdle
    /\ LilyIdle
    /\ AudioIdle
    /\ previous = <<>>
    /\ TransIdle

NextPair ==
    \/ GetParsedNotes
    \/ BeginTrack
    \/ PairEvent
    \/ FinishTrack
    \/ ReturnTracks

SpecPair == InitPair /\ [][NextPair]_vars

----------------------------------------------------------------------------
(* The decoder on damaged files: files cut off before their end and files  *)
(* with a wrong header.                                                    *)

\* one track: NoteOn 60, NoteOn 61 by running status, a tempo, NoteOff 60,
\* End of Track
OneTrackFile ==
    HeaderChunk(1, DefaultTicksPerBeat)
        \o TrackChunk(NoteOn60 \o Running61 \o Tempo200000 \o NoteOff60
                          \o EndOfTrack)

\* two tracks: a note; a tempo and End of Track
TwoTrackFile ==
    HeaderChunk(2, DefaultTicksPerBeat)
        \o TrackChunk(NoteOn60 \o NoteOff60)
        \o TrackChunk(Tempo500000 \o EndOfTrack)

\* the proper prefixes of a file
Prefixes(file) == {SubSeq(file, 1, n) : n \in 0..(Len(file) - 1)}

TruncatedFiles == Prefixes(OneTrackFile) \cup Prefixes(TwoTrackFile)

\* a header chunk with the tag and the division given
HeaderWith(tag, division) ==
    tag \o <<0, 0, 0, 6>> \o <<0, 1>> \o <<0, 1>>
        \o <<division \div 256, division % 256>>

\* RIFF
WrongTag == <<82, 73, 70, 70>>
\* 25 frames per second, 40 ticks per frame: 0xE728
SmpteDivision == 59176

\* files with a header tag that is not MThd or with a frame-based division,
\* and the same files with the right header
HeaderFiles ==
    {HeaderWith(tag, division) \o TrackChunk(NoteOn60 \o NoteOff60) :
        tag \in {MThd, MTrk, WrongTag},
        division \in {DefaultTicksPerBeat, 32768, SmpteDivision, 32767}}

InitDamaged ==
    /\ pc = "header"
    /\ data \in TruncatedFiles \cup HeaderFiles
    /\ pos = 0
    /\ target_bpm \in TargetBpms
    /\ ticks_per_beat = DefaultTicksPerBeat
    /\ tracks_left = 0 /\ track_end = 0 /\ abs_tick = 0
    /\ running_status = 0 /\ events = <<>>
    /\ tempo_map = <<>> /\ tracks_data = <<>>
    /\ PairIdle
    /\ LilyIdle
    /\ AudioIdle
    /\ previous = <<>>
    /\ TransIdle

SpecDamaged == InitDamaged /\ [][Next]_vars

----------------------------------------------------------------------------
(* The decoder on system messages, on NoteOn with velocity 0 and on track  *)
(* chunks whose declared length is not the length of their events.         *)

NoteOnZero   == <<10, 144, 60, 0>>      \* delta 10, NoteOn ch 0, 60, vel 0
RunningZero  == <<10, 60, 0>>           \* delta 10, data bytes 60, 0
SongPosition == <<0, 242, 1, 2>>        \* delta 0, F2 and two data bytes
QuarterFrame == <<0, 241, 5>>           \* delta 0, F1 and one data byte
SongSelect   == <<0, 243, 5>>           \* delta 0, F3 and one data byte
TimingClock  == <<0, 248>>              \* delta 0, F8
TempoAtZero  == <<0, 255, 81, 3, 3, 13, 64>>  \* delta 0, tempo 200000

StreamChunks ==
    {NoteOn60, NoteOnZero, RunningZero, SongPosition, QuarterFrame,
     SongSelect, TimingClock, EndOfTrack, TempoAtZero}

\* tempo 500000 at tick 0, NoteOn ch 0, 61 at tick 0, its NoteOff at tick 20
NoteTrack == Tempo500000 \o <<0, 144, 61, 100, 20, 128, 61, 0>>

\* MTrk, a declared length, the body
TrackChunkOf(length, body) == MTrk \o <<0, 0, 0, length>> \o body

\* one track; or a first track that declares the length of its body or one
\* byte less, followed by the track of the note 61
StreamFiles ==
    LET bodies == {Flatten(a) : a \in SeqsUpTo(StreamChunks, MaxChunks)}
        hdr(n) == HeaderChunk(n, DefaultTicksPerBeat)
    IN  {hdr(1) \o TrackChunk(b) : b \in bodies}
        \cup
        {hdr(2) \o TrackChunkOf(Len(b) - short, b) \o TrackChunk(NoteTrack) :
            b \in bodies \ {<<>>}, short \in {0, 1}}

InitStream ==
    /\ pc = "header"
    /\ data \in StreamFiles
    /\ pos = 0
    /\ target_bpm = 0
    /\ ticks_per_beat = DefaultTicksPerBeat
    /\ tracks_left = 0 /\ track_end = 0 /\ abs_tick = 0
    /\ running_status = 0 /\ events = <<>>
    /\ tempo_map = <<>> /\ tracks_data = <<>>
    /\ PairIdle
    /\ LilyIdle
    /\ AudioIdle
    /\ previous = <<>>
    /\ TransIdle

SpecStream == InitStream /\ [][Next]_vars

----------------------------------------------------------------------------
(* The decoder on track bodies drawn byte by byte: data bytes where a      *)
(* status is due, status bytes no branch handles, delta times, lengths and *)
(* messages that run out of the file.                                      *)

\* 0x00, 0x2F: data bytes; 0x81: NoteOff of channel 1, or a delta time
\* that goes on; 0xF0: system exclusive; 0xF4: undefined; 0xFF: meta
BodyBytes == {0, 47, 129, 240, 244, 255}

\* a header that declares two tracks and one track chunk, which declares
\* no byte, the bytes of its body, or two bytes more than the file has
ByteFiles ==
    UNION {{HeaderChunk(2, DefaultTicksPerBeat) \o TrackChunkOf(length, b) :
               length \in {0, Len(b), Len(b) + 2}} :
           b \in SeqsUpTo(BodyBytes, MaxBody)}

InitBytes ==
    /\ pc = "header"
    /\ data \in ByteFiles
    /\ pos = 0
    /\ target_bpm = 0
    /\ ticks_per_beat = DefaultTicksPerBeat
    /\ tracks_left = 0 /\ track_end = 0 /\ abs_tick = 0
    /\ running_status = 0 /\ events = <<>>
    /\ tempo_map = <<>> /\ tracks_data = <<>>
    /\ PairIdle
    /\ LilyIdle
    /\ AudioIdle
    /\ previous = <<>>
    /\ TransIdle

\* _parse_file alone
NextParse ==
    \/ ParseHeader
    \/ FindTrack
    \/ ParseEvent
    \/ EndTrack
    \/ FinishFile

SpecBytes == InitBytes /\ [][NextParse]_vars

\* the interpreter goes on with the next statement as long as there is one
SpecBytesLive == SpecBytes /\ WF_vars(NextParse)

----------------------------------------------------------------------------
(* MidiParser._read_variable_length on its own: the file holds the bytes   *)
(* of one quantity and what follows it; the value is added to abs_tick as  *)
(* the event loop does with a delta time.                                  *)

\* delta = self._read_variable_length(f); abs_tick += delta
ReadVariableLength ==
    /\ pc = "vlq"
    /\ LET delta == read_variable_length(pos)
       IN  /\ pos' = delta.pos
           /\ abs_tick' = abs_tick + delta.value
    /\ pc' = "vlq_done"
    /\ UNCHANGED <<data, target_bpm, ticks_per_beat, tracks_left, track_end,
                   running_status, events, tempo_map, tracks_data, pairVars,
                   lilyVars, audioVars, previous,
                   transVars>>

\* bytes with the continuation bit clear and set
VlqBytes == {0, 1, 2, 128, 129, 130}

InitVlq ==
    /\ pc = "vlq"
    /\ data \in SeqsUpTo(VlqBytes, MaxVlqBytes)
    /\ pos = 0 /\ target_bpm = 0
    /\ ticks_per_beat = DefaultTicksPerBeat
    /\ tracks_left = 0 /\ track_end = 0 /\ abs_tick = 0
    /\ running_status = 0 /\ events = <<>>
    /\ tempo_map = <<>> /\ tracks_data = <<>>
    /\ PairIdle
    /\ LilyIdle
    /\ AudioIdle
    /\ previous = <<>>
    /\ TransIdle

SpecVlq == InitVlq /\ [][ReadVariableLength]_vars

----------------------------------------------------------------------------
(* lilysynth.py, Synth.parse.                                              *)
(*                                                                         *)
(* A token is given by the groups the regular expressions of parse take    *)
(* from it:                                                                *)
(*   [kind |-> "bar"], [kind |-> "open"],                                  *)
(*   [kind |-> "close", dur, dots, tie],                                   *)
(*   [kind |-> "note", base, acc, oct, dur, dots, tie]                     *)
(* with dur the duration number (0: none written), dots the number of      *)
(* dots, tie whether '~' is written, acc the accidental ("is", "es" or     *)
(* "") and oct the number of ' minus the number of , .                     *)
(* A frequency is represented by the MIDI pitch number it is computed      *)
(* from (the frequency is a strictly increasing function of it); 0 is the  *)
(* frequency 0.0 of a rest.                                                *)

\* beat lengths are counted in 1/UnitsPerBeat of a quarter note
UnitsPerBeat == 16
\* Synth.transpose
Transpose == 0
\* the tolerance 0.001 s of _process_ties, in microseconds
TieEpsilon == 1000
\* the tolerance 0.001 of the bar validation is 1/BarTolerance of a beat
BarTolerance == 1000
\* MIDI pitch of the note c without octave marks
BasePitch == 48

\* self.note_offsets.get(note_name, 0)
note_offset(note_name) ==
    CASE note_name = "c" -> 0
      [] note_name = "d" -> 2
      [] note_name = "e" -> 4
      [] note_name = "f" -> 5
      [] note_name = "g" -> 7
      [] note_name = "a" -> 9
      [] note_name = "b" -> 11
      [] OTHER -> 0

\* _get_freq(note_name, octave_shift, accidentals)
get_freq(note_name, octave_shift, accidentals) ==
    IF note_name = "r" THEN 0
    ELSE BasePitch + note_offset(note_name) + accidentals
             + octave_shift * 12 + Transpose

\* acc_val
acc_val(acc) == IF acc = "is" THEN 1 ELSE IF acc = "es" THEN 0 - 1 ELSE 0

\* dq = 4.0 / last_duration_val
beat_len(duration_val) == (4 * UnitsPerBeat) \div duration_val

RECURSIVE dot_sum(_, _, _)
\* what `for _ in dots: factor += add; add /= 2` adds to the length dq;
\* add is 1/halving
dot_sum(dq, halving, dots) ==
    IF dots = 0 THEN 0
    ELSE dq \div halving + dot_sum(dq, halving * 2, dots - 1)

\* dq *= factor
with_dots(dq, dots) == dq + dot_sum(dq, 2, dots)

\* dur_sec = dq * (60.0 / self.bpm), in microseconds
to_seconds(dq) == (dq * (MicrosPerMinute \div bpm)) \div UnitsPerBeat

\* the local variables of parse
ScoreState ==
    [current_time |-> current_time,
     last_duration_val |-> last_duration_val,
     current_bar_duration |-> current_bar_duration,
     bar_counter |-> bar_counter,
     in_chord |-> in_chord,
     chord_start_time |-> chord_start_time,
     chord_max_duration |-> chord_max_duration,
     chord_max_beat_len |-> chord_max_beat_len,
     chord_event_indices |-> chord_event_indices,
     raw_events |-> raw_events,
     warnings |-> warnings]

\* bar_token with the check made in the first bar as well
bar_token_first_bar(st) ==
    LET warn == /\ validate
                /\ Abs(st.current_bar_duration - target_bar_len) * BarTolerance
                       > UnitsPerBeat
    IN  [st EXCEPT !.warnings = IF warn THEN Append(@, st.bar_counter) ELSE @,
                   !.current_bar_duration = 0,
                   !.bar_counter = @ + 1]

\* bar_token which sets the duration number back to a quarter
bar_token_reset_duration(st) ==
    LET warn == /\ validate
                /\ st.bar_counter > 1
                /\ Abs(st.current_bar_duration - target_bar_len) * BarTolerance
                       > UnitsPerBeat
    IN  [st EXCEPT !.warnings = IF warn THEN Append(@, st.bar_counter) ELSE @,
                   !.current_bar_duration = 0,
                   !.bar_counter = @ + 1,
                   !.last_duration_val = DefaultDuration]

\* token == '|'
bar_token(st) ==
    LET warn == /\ validate
                /\ st.bar_counter > 1
                /\ Abs(st.current_bar_duration - target_bar_len) * BarTolerance
                       > UnitsPerBeat
    IN  [st EXCEPT !.warnings = IF warn THEN Append(@, st.bar_counter) ELSE @,
                   !.current_bar_duration = 0,
                   !.bar_counter = @ + 1]

\* token == '<'
chord_open(st) ==
    [st EXCEPT !.in_chord = TRUE,
               !.chord_start_time = st.current_time,
               !.chord_max_duration = 0,
               !.chord_max_beat_len = 0,
               !.chord_event_indices = <<>>]

\* the closing token's tie mark set on the last member of the chord only
chord_members_tie_last(st, has_duration, dur_sec, tie) ==
    LET members == {st.chord_event_indices[k] :
                        k \in 1..Len(st.chord_event_indices)}
        retimed(e) == IF has_duration THEN [e EXCEPT !.dur = dur_sec] ELSE e
        retied(e) == IF tie THEN [e EXCEPT !.tied = TRUE] ELSE e
    IN  [i \in 1..Len(st.raw_events) |->
            IF i \in members
            THEN IF i = st.chord_event_indices[Len(st.chord_event_indices)]
                 THEN retied(retimed(st.raw_events[i]))
                 ELSE retimed(st.raw_events[i])
            ELSE st.raw_events[i]]

\* the members of the chord with their durations and tie marks as the
\* closing token sets them
chord_members(st, has_duration, dur_sec, tie) ==
    LET members == {st.chord_event_indices[k] :
                        k \in 1..Len(st.chord_event_indices)}
        retimed(e) == IF has_duration THEN [e EXCEPT !.dur = dur_sec] ELSE e
        retied(e) == IF tie THEN [e EXCEPT !.tied = TRUE] ELSE e
    IN  [i \in 1..Len(st.raw_events) |->
            IF i \in members THEN retied(retimed(st.raw_events[i]))
            ELSE st.raw_events[i]]

\* chord_close which leaves the durations of the members as written
chord_close_keep_durations(st, token) ==
    LET has_explicit_duration == token.dur # 0 \/ token.dots # 0
        duration_val == IF token.dur # 0 THEN token.dur
                        ELSE st.last_duration_val
        dq == with_dots(beat_len(duration_val), token.dots)
        dur_sec == to_seconds(dq)
    IN  [st EXCEPT
            !.in_chord = FALSE,
            !.last_duration_val =
                IF has_explicit_duration THEN duration_val ELSE @,
            !.raw_events = chord_members(st, FALSE, dur_sec, token.tie),
            !.current_time =
                IF has_explicit_duration THEN st.chord_start_time + dur_sec
                ELSE st.chord_start_time + st.chord_max_duration,
            !.current_bar_duration =
                IF has_explicit_duration THEN @ + dq
                ELSE @ + st.chord_max_beat_len]

\* chord_close which uses the number written on '>' for the chord only
chord_close_local_number(st, token) ==
    LET has_explicit_duration == token.dur # 0 \/ token.dots # 0
        duration_val == IF token.dur # 0 THEN token.dur
                        ELSE st.last_duration_val
        dq == with_dots(beat_len(duration_val), token.dots)
        dur_sec == to_seconds(dq)
    IN  [st EXCEPT
            !.in_chord = FALSE,
            !.raw_events =
                chord_members(st, has_explicit_duration, dur_sec, token.tie),
            !.current_time =
                IF has_explicit_duration THEN st.chord_start_time + dur_sec
                ELSE st.chord_start_time + st.chord_max_duration,
            !.current_bar_duration =
                IF has_explicit_duration THEN @ + dq
                ELSE @ + st.chord_max_beat_len]

\* token.startswith('>')
chord_close(st, token) ==
    LET has_explicit_duration == token.dur # 0 \/ token.dots # 0
        duration_val == IF token.dur # 0 THEN token.dur
                        ELSE st.last_duration_val
        dq == with_dots(beat_len(duration_val), token.dots)
        dur_sec == to_seconds(dq)
    IN  [st EXCEPT
            !.in_chord = FALSE,
            !.last_duration_val =
                IF has_explicit_duration THEN duration_val ELSE @,
            !.raw_events =
                chord_members(st, has_explicit_duration, dur_sec, token.tie),
            !.current_time =
                IF has_explicit_duration THEN st.chord_start_time + dur_sec
                ELSE st.chord_start_time + st.chord_max_duration,
            !.current_bar_duration =
                IF has_explicit_duration THEN @ + dq
                ELSE @ + st.chord_max_beat_len]

\* a note token read with the chord flag given
note_token_as(st, token, chord) ==
    LET duration_val == IF token.dur # 0 THEN token.dur
                        ELSE st.last_duration_val
        dq == with_dots(beat_len(duration_val), token.dots)
        dur_sec == to_seconds(dq)
        freq == get_freq(token.base, token.oct, acc_val(token.acc))
        start == IF chord THEN st.chord_start_time ELSE st.current_time
        event == [freq |-> freq, start |-> start, dur |-> dur_sec,
                  tied |-> token.tie]
    IN  [st EXCEPT
            !.last_duration_val = duration_val,
            !.chord_max_beat_len = IF chord THEN Max(@, dq) ELSE @,
            !.current_bar_duration = IF chord THEN @ ELSE @ + dq,
            !.raw_events = Append(@, event),
            !.chord_event_indices =
                IF chord THEN Append(@, Len(st.raw_events) + 1) ELSE @,
            !.chord_max_duration = IF chord THEN Max(@, dur_sec) ELSE @,
            !.current_time = IF chord THEN @ ELSE @ + dur_sec]

\* note_token which takes every note for a note of the melody
note_token_sequential(st, token) == note_token_as(st, token, FALSE)

\* a note, rest or skip token
note_token(st, token) == note_token_as(st, token, st.in_chord)

\* the body of `for token in tokens`
parse_token(st, token) ==
    CASE token.kind = "bar" -> bar_token(st)
      [] token.kind = "open" -> chord_open(st)
      [] token.kind = "close" -> chord_close(st, token)
      [] OTHER -> note_token(st, token)

----------------------------------------------------------------------------
(* lilysynth.py, Synth._process_ties. *)

RECURSIVE insert_by_start(_, _)
\* s with e put behind every element whose start is <= the start of e
insert_by_start(s, e) ==
    IF s = <<>> THEN <<e>>
    ELSE IF s[Len(s)].start <= e.start THEN Append(s, e)
    ELSE Append(insert_by_start(SubSeq(s, 1, Len(s) - 1), e), s[Len(s)])

RECURSIVE sort_by_start(_)
\* events.sort(key=lambda x: x['start']): a stable sort
sort_by_start(s) ==
    IF s = <<>> THEN <<>>
    ELSE insert_by_start(sort_by_start(SubSeq(s, 1, Len(s) - 1)), s[Len(s)])

\* continuations without the comparison of the frequencies
continuations_any_pitch(evs, i, curr, skip) ==
    {j \in (i + 1)..Len(evs) :
        /\ j \notin skip
        /\ Abs(evs[j].start - (curr.start + curr.dur)) < TieEpsilon}

\* the candidates of `for j in range(i + 1, len(events))` which continue curr
continuations(evs, i, curr, skip) ==
    {j \in (i + 1)..Len(evs) :
        /\ j \notin skip
        /\ Abs(evs[j].start - (curr.start + curr.dur)) < TieEpsilon
        /\ evs[j].freq = curr.freq}

RECURSIVE tie_extend_no_skip(_, _, _, _)
\* tie_extend without skip.add(j): the continuation is found once, by its
\* start, and is met again by the loop over the events
tie_extend_no_skip(evs, i, curr, skip) ==
    IF ~curr.tied THEN [curr |-> curr, skip |-> skip]
    ELSE LET found == continuations(evs, i, curr, skip)
         IN  IF found = {} THEN [curr |-> curr, skip |-> skip]
             ELSE LET j == SetMin(found)
                  IN  tie_extend_no_skip(evs, i,
                                         [curr EXCEPT !.dur = @ + evs[j].dur,
                                                      !.tied = evs[j].tied],
                                         skip)

RECURSIVE tie_extend(_, _, _, _)
\* `while curr['tied']`: curr and skip when the loop is left
tie_extend(evs, i, curr, skip) ==
    IF ~curr.tied THEN [curr |-> curr, skip |-> skip]
    ELSE LET found == continuations(evs, i, curr, skip)
         IN  IF found = {} THEN [curr |-> curr, skip |-> skip]
             ELSE LET j == SetMin(found)
                  IN  tie_extend(evs, i,
                                 [curr EXCEPT !.dur = @ + evs[j].dur,
                                              !.tied = evs[j].tied],
                                 skip \cup {j})

RECURSIVE tie_loop_keep_rests(_, _, _, _)
\* tie_loop without `if curr['freq'] == 0.0: continue`
tie_loop_keep_rests(evs, i, skip, out) ==
    IF i > Len(evs) THEN out
    ELSE IF i \in skip THEN tie_loop_keep_rests(evs, i + 1, skip, out)
    ELSE LET r == tie_extend(evs, i, evs[i], skip)
         IN  tie_loop_keep_rests([evs EXCEPT ![i] = r.curr], i + 1, r.skip,
                                 Append(out, r.curr))

RECURSIVE tie_loop(_, _, _, _)
\* `for i, curr in enumerate(events)` from index i on
tie_loop(evs, i, skip, out) ==
    IF i > Len(evs) THEN out
    ELSE IF i \in skip \/ evs[i].freq = 0 THEN tie_loop(evs, i + 1, skip, out)
    ELSE LET r == tie_extend(evs, i, evs[i], skip)
         IN  tie_loop([evs EXCEPT ![i] = r.curr], i + 1, r.skip,
                      Append(out, r.curr))

\* _process_ties without the merging: the sorted notes
process_ties_unmerged(evs) ==
    SelectSeq(sort_by_start(evs), LAMBDA e : e.freq # 0)

RECURSIVE tie_skip(_, _, _)
\* skip when `for i, curr in enumerate(events)` is left
tie_skip(evs, i, skip) ==
    IF i > Len(evs) THEN skip
    ELSE IF i \in skip \/ evs[i].freq = 0 THEN tie_skip(evs, i + 1, skip)
    ELSE LET r == tie_extend(evs, i, evs[i], skip)
         IN  tie_skip([evs EXCEPT ![i] = r.curr], i + 1, r.skip)

\* _process_ties without events.sort
process_ties_unsorted(evs) ==
    IF evs = <<>> THEN <<>>
    ELSE tie_loop(evs, 1, {}, <<>>)

\* _process_ties(events)
process_ties(evs) ==
    IF evs = <<>> THEN <<>>
    ELSE tie_loop(sort_by_start(evs), 1, {}, <<>>)

----------------------------------------------------------------------------
(* Synth.parse as a state machine: one step per token, then the call of    *)
(* _process_ties.                                                          *)

\* one iteration of `for token in tokens`
ParseToken ==
    /\ pc = "tokens"
    /\ tok_idx <= Len(tokens)
    /\ LET st == parse_token(ScoreState, tokens[tok_idx])
       IN  /\ current_time' = st.current_time
           /\ last_duration_val' = st.last_duration_val
           /\ current_bar_duration' = st.current_bar_duration
           /\ bar_counter' = st.bar_counter
           /\ in_chord' = st.in_chord
           /\ chord_start_time' = st.chord_start_time
           /\ chord_max_duration' = st.chord_max_duration
           /\ chord_max_beat_len' = st.chord_max_beat_len
           /\ chord_event_indices' = st.chord_event_indices
           /\ raw_events' = st.raw_events
           /\ warnings' = st.warnings
    /\ tok_idx' = tok_idx + 1
    /\ UNCHANGED <<pc, midiVars, synthVars, merged, audioVars, previous,
                   transVars>>

\* return self._process_ties(raw_events); raw_events keeps the list as the
\* loop built it (the list is local to parse and dropped at the return)
ProcessTies ==
    /\ pc = "tokens"
    /\ tok_idx > Len(tokens)
    /\ merged' = process_ties(raw_events)
    /\ pc' = "score_done"
    /\ UNCHANGED <<midiVars, synthVars, scoreVars, audioVars, previous,
                   transVars>>

NextScore ==
    \/ ParseToken
    \/ ProcessTies

\* tokens
Note(base, dur, dots, tie) ==
    [kind |-> "note", base |-> base, acc |-> "", oct |-> 0,
     dur |-> dur, dots |-> dots, tie |-> tie]
Close(dur, dots, tie) ==
    [kind |-> "close", dur |-> dur, dots |-> dots, tie |-> tie]
Open == [kind |-> "open"]
Bar == [kind |-> "bar"]

\* c4~ c~ c4 c8 e8~ < >
TieTokens ==
    {Note("c", 4, 0, TRUE), Note("c", 0, 0, TRUE), Note("c", 4, 0, FALSE),
     Note("c", 8, 0, FALSE), Note("e", 8, 0, TRUE), Open,
     Close(0, 0, FALSE)}

\* < > >4 >. c2. e8 g |
ChordTokens ==
    {Open, Close(0, 0, FALSE), Close(4, 0, FALSE), Close(0, 1, FALSE),
     Note("c", 2, 1, FALSE), Note("e", 8, 0, FALSE), Note("g", 0, 0, FALSE),
     Bar}

\* Synth(bpm=100, time="4/4", validate=True).parse(score)
InitScore(alphabet) ==
    /\ pc = "tokens"
    /\ ParseIdle /\ tempo_map = <<>> /\ tracks_data = <<>> /\ PairIdle
    /\ bpm = 100 /\ validate = TRUE /\ target_bar_len = 4 * UnitsPerBeat
    /\ tokens \in SeqsUpTo(alphabet, MaxTokens)
    /\ ScoreIdle
    /\ merged = <<>>
    /\ AudioIdle
    /\ previous = <<>>
    /\ TransIdle

InitTies == InitScore(TieTokens)
InitChords == InitScore(ChordTokens)

SpecTies == InitTies /\ [][NextScore]_vars
SpecChords == InitChords /\ [][NextScore]_vars

\* r4 r8~ r c4~ c8 | < >
RestTokens ==
    {Note("r", 4, 0, FALSE), Note("r", 8, 0, TRUE), Note("r", 0, 0, FALSE),
     Note("c", 4, 0, TRUE), Note("c", 8, 0, FALSE), Bar, Open,
     Close(0, 0, FALSE)}

InitRests == InitScore(RestTokens)

SpecRests == InitRests /\ [][NextScore]_vars

\* scores with a chord whose closing token may carry a tie: an optional g4
\* in front, '<', up to MaxMembers of c4 e e8, one of >~ >2~ >, and up to
\* MaxFollowers of < c e > behind it
ChordMembers ==
    {Note("c", 4, 0, FALSE), Note("e", 0, 0, FALSE), Note("e", 8, 0, FALSE)}
ChordCloses == {Close(0, 0, TRUE), Close(2, 0, TRUE), Close(0, 0, FALSE)}
Followers ==
    {Open, Note("c", 0, 0, FALSE), Note("e", 0, 0, FALSE),
     Close(0, 0, FALSE)}
TiedChordScores ==
    {lead \o <<Open>> \o members \o <<close>> \o behind :
        lead \in {<<>>, <<Note("g", 4, 0, FALSE)>>},
        members \in SeqsUpTo(ChordMembers, MaxMembers) \ {<<>>},
        close \in ChordCloses,
        behind \in SeqsUpTo(Followers, MaxFollowers)}

\* Synth(bpm=100, time="4/4", validate=True).parse(score)
InitTiedChords ==
    /\ pc = "tokens"
    /\ ParseIdle /\ tempo_map = <<>> /\ tracks_data = <<>> /\ PairIdle
    /\ bpm = 100 /\ validate = TRUE /\ target_bar_len = 4 * UnitsPerBeat
    /\ tokens \in TiedChordScores
    /\ ScoreIdle
    /\ merged = <<>>
    /\ AudioIdle
    /\ previous = <<>>
    /\ TransIdle

SpecTiedChords == InitTiedChords /\ [][NextScore]_vars

----------------------------------------------------------------------------
(* lilysynth.py Synth._generate_wave and mivi.py MidiSynth._generate_wave: *)
(* the additive synthesis.                                                 *)
(*                                                                         *)
(* A frequency is an integer number of Hz, an overtone amplitude an        *)
(* integer in units of 1/AmplitudeUnit.  The signal is                     *)
(*   sum over i in harmonics of overtones[i + 1] * sin(2 pi freq (i+1) t)  *)
(*   divided by divisor;                                                   *)
(* wave holds the set harmonics and the divisor, not the samples.          *)

AmplitudeUnit == 100

RECURSIVE overtone_sum(_)
\* np.sum(self.overtones)
overtone_sum(ots) ==
    IF ots = <<>> THEN 0 ELSE Head(ots) + overtone_sum(Tail(ots))

\* the harmonics summed when a harmonic at half the sample rate is taken
harmonics_inclusive(freq, ots, rate) ==
    {i \in 0..(Len(ots) - 1) : 2 * (freq * (i + 1)) <= rate}

\* the indices i of `for i, intensity in enumerate(self.overtones)` with
\* harmonic_freq < self.sample_rate / 2
harmonics(freq, ots, rate) ==
    {i \in 0..(Len(ots) - 1) : 2 * (freq * (i + 1)) < rate}

\* what _generate_wave returns for the call held in wave; silent: None
generate_wave(silent) ==
    IF silent
    THEN [called |-> TRUE, freq |-> wave.freq, none |-> TRUE]
    ELSE [called |-> TRUE, freq |-> wave.freq, none |-> FALSE,
          harmonics |-> harmonics(wave.freq, overtones, sample_rate),
          divisor |-> overtone_sum(overtones)]

\* Synth._generate_wave(freq, duration_sec)
GenerateWave ==
    /\ pc = "wave"
    /\ wave' = generate_wave(wave.freq = 0)
    /\ pc' = "wave_done"
    /\ UNCHANGED <<midiVars, lilyVars, sample_rate, overtones, voiceVars, audio_tracks,
                   gain, mixed, wav, previous,
                   transVars>>

\* MidiSynth._generate_wave(freq, duration_sec, velocity, overtones)
MidiGenerateWave ==
    /\ pc = "wave"
    /\ wave' = generate_wave(wave.freq <= 0)
    /\ pc' = "wave_done"
    /\ UNCHANGED <<midiVars, lilyVars, sample_rate, overtones, voiceVars, audio_tracks,
                   gain, mixed, wav, previous,
                   transVars>>

NextWave ==
    \/ GenerateWave
    \/ MidiGenerateWave

\* a rest, the drum click of mivi.py, a', and frequencies around half and a
\* quarter of the sample rates
WaveFreqs == {0, 100, 440, 4000, 7350, 11025, 22050, 30000}
WaveRates == {DefaultSampleRate, 8000, 22050, 88200}
\* Synth.overtones, MidiSynth.base_overtones, the drum and the organ
\* overtones of generate_track_audio
WaveOvertones ==
    {<<100, 60, 30, 10, 5>>, <<100, 50, 30, 10>>, <<100>>, <<80, 80, 50, 20>>}

InitWave ==
    /\ pc = "wave"
    /\ ParseIdle /\ tempo_map = <<>> /\ tracks_data = <<>> /\ PairIdle
    /\ LilyIdle
    /\ sample_rate \in WaveRates
    /\ overtones \in WaveOvertones
    /\ VoiceIdle
    /\ wave \in {[called |-> FALSE, freq |-> f] : f \in WaveFreqs}
    /\ audio_tracks = <<>> /\ gain = DefaultGain /\ mixed = <<>>
    /\ wav = NoFile
    /\ previous = <<>>
    /\ TransIdle

SpecWave == InitWave /\ [][NextWave]_vars

----------------------------------------------------------------------------
(* lilysynth.py save_mixed_wav and mivi.py save_mixed_audio.                *)
(*                                                                         *)
(* A buffer is a sequence of samples; a sample is an integer in units of   *)
(* 1/SampleUnit of full amplitude, a gain an integer in units of           *)
(* 1/GainUnit.  The float32 rounding of the samples is not modelled.       *)

SampleUnit == 2

\* max(len(track) for track in audio_tracks)
max_len(tracks) == SetMax({Len(tracks[k]) : k \in 1..Len(tracks)})

\* mixed[:length] = track
mix_add_overwrite(master, track) ==
    [i \in 1..Len(master) |->
        IF i <= Len(track) THEN track[i] ELSE master[i]]

\* mixed[:length] += track
mix_add(master, track) ==
    [i \in 1..Len(master) |->
        IF i <= Len(track) THEN master[i] + track[i] ELSE master[i]]

RECURSIVE mix_from(_, _, _)
\* `for track in audio_tracks` from track k on
mix_from(master, tracks, k) ==
    IF k > Len(tracks) THEN master
    ELSE mix_from(mix_add(master, tracks[k]), tracks, k + 1)

\* the master buffer after the loop
mix_tracks(tracks) == mix_from([i \in 1..max_len(tracks) |-> 0], tracks, 1)

\* np.max(np.abs(mixed)) of a non-empty buffer
peak(master) == SetMax({Abs(master[i]) : i \in 1..Len(master)})

\* astype(np.int16) of the quotient a / b: the fraction is cut off
trunc_div(a, b) == IF a >= 0 THEN a \div b ELSE 0 - ((0 - a) \div b)

\* np.clip(x, -1.0, 1.0) of x = num / den: the numerator
clip(num, den) ==
    IF num > den THEN den ELSE IF num < 0 - den THEN 0 - den ELSE num

\* quantize without the division by max_val
quantize_unscaled(sample, max_val, g) ==
    trunc_div(clip(sample * g, SampleUnit * GainUnit) * FullScale,
              SampleUnit * GainUnit)

\* (np.clip(sample / max_val * g, -1.0, 1.0) * 32767).astype(np.int16)
quantize(sample, max_val, g) ==
    trunc_div(clip(sample * g, max_val * GainUnit) * FullScale,
              max_val * GainUnit)

\* the samples written: scaled if max_val > 0, else as they are
encode(master, g) ==
    LET max_val == peak(master)
    IN  [i \in 1..Len(master) |->
            IF max_val > 0 THEN quantize(master[i], max_val, g)
            ELSE trunc_div(clip(master[i], SampleUnit) * FullScale,
                           SampleUnit)]

\* the container wave.open(...) writes
wav_file(frames) ==
    [written |-> TRUE, nchannels |-> 1, sampwidth |-> 2,
     framerate |-> sample_rate, frames |-> frames]

\* SaveMixed without the check for an empty list: max() of an empty
\* sequence raises ValueError
SaveMixedUnguarded(g) ==
    /\ pc = "mix"
    /\ IF max_len(audio_tracks) = 0
       THEN /\ pc' = "error"
            /\ mixed' = <<>>
            /\ UNCHANGED wav
       ELSE /\ pc' = "mix_done"
            /\ mixed' = mix_tracks(audio_tracks)
            /\ wav' = wav_file(encode(mixed', g))
    /\ UNCHANGED <<midiVars, lilyVars, sample_rate, overtones, voiceVars, wave,
                   audio_tracks, gain, previous,
                   transVars>>

\* the body of save_mixed_wav and of save_mixed_audio with gain g
SaveMixed(g) ==
    /\ pc = "mix"
    /\ IF audio_tracks = <<>>
       THEN \* the message is printed; return
            /\ pc' = "mix_done"
            /\ UNCHANGED <<mixed, wav>>
       ELSE IF max_len(audio_tracks) = 0
       THEN \* np.max of an empty array raises ValueError
            /\ pc' = "error"
            /\ mixed' = <<>>
            /\ UNCHANGED wav
       ELSE /\ pc' = "mix_done"
            /\ mixed' = mix_tracks(audio_tracks)
            /\ wav' = wav_file(encode(mixed', g))
    /\ UNCHANGED <<midiVars, lilyVars, sample_rate, overtones, voiceVars, wave,
                   audio_tracks, gain, previous,
                   transVars>>

\* lilysynth.py: save_mixed_wav(audio_tracks, output_target, sample_rate, gain)
SaveMixedWav == SaveMixed(gain)

\* mivi.py: save_mixed_audio(track_buffers, filename, sample_rate); it has
\* no gain parameter: gain holds the level 0.9 it scales to
SaveMixedAudio == gain = MidiGain /\ SaveMixed(MidiGain)

NextMix ==
    \/ SaveMixedWav
    \/ SaveMixedAudio

\* sample values: -1.5, 0 and 1.0 of full amplitude
Samples == {0 - 3, 0, 2}
Buffers == SeqsUpTo(Samples, MaxSamples)
\* gain=0.3, the default 0.8, the 0.9 of save_mixed_audio, gain=1.0
Gains == {3, DefaultGain, MidiGain, GainUnit}

InitMix ==
    /\ pc = "mix"
    /\ ParseIdle /\ tempo_map = <<>> /\ tracks_data = <<>> /\ PairIdle
    /\ LilyIdle
    /\ sample_rate = DefaultSampleRate /\ overtones = <<>> /\ wave = NoWave
    /\ VoiceIdle
    /\ audio_tracks \in SeqsUpTo(Buffers, MaxBuffers)
    /\ gain \in Gains
    /\ mixed = <<>>
    /\ wav = NoFile
    /\ previous = <<>>
    /\ TransIdle

SpecMix == InitMix /\ [][NextMix]_vars

----------------------------------------------------------------------------
(* lilysynth.py Synth.get_audio_data: the buffer of one voice, and the     *)
(* rendering of a list of voices by save_mixed_wav.                        *)
(*                                                                         *)
(* The samples of a wave are not computed.  A wave is a block of its       *)
(* length in samples, all of one level that is chosen per voice; the       *)
(* lengths and the positions in the buffer are those of the code.          *)

\* int(t * self.sample_rate), t in microseconds
to_samples(t) == (t * sample_rate) \div 1000000

\* e['start'] + e['dur'] of the event that ends last
last_end(evs) == SetMax({evs[i].start + evs[i].dur : i \in 1..Len(evs)})

\* start_s and end_s of an event
start_s(e) == to_samples(e.start)
end_s(e) == start_s(e) + to_samples(e.dur + release_time)

\* len(buffer) when get_audio_data returns: num_samples, or the end of a
\* wave for which the buffer was padded
buffer_len(evs) ==
    SetMax({to_samples(last_end(evs) + release_time + TailTime)}
           \cup {end_s(evs[i]) : i \in 1..Len(evs)})

\* the buffer get_audio_data returns for the events parse returned
get_audio_data(evs, level) ==
    IF evs = <<>> THEN <<>>
    ELSE [k \in 1..buffer_len(evs) |->
             level * Cardinality({i \in 1..Len(evs) :
                                     start_s(evs[i]) < k /\ k <= end_s(evs[i])})]

\* an initialisation that keeps the duration of the call before
EnterParseKeepDuration ==
    /\ tok_idx' = 1 /\ current_time' = 0
    /\ last_duration_val' = last_duration_val
    /\ current_bar_duration' = 0 /\ bar_counter' = 1
    /\ in_chord' = FALSE /\ chord_start_time' = 0
    /\ chord_max_duration' = 0 /\ chord_max_beat_len' = 0
    /\ chord_event_indices' = <<>> /\ raw_events' = <<>>
    /\ warnings' = <<>>

\* the initialisation of the variables of parse
EnterParse ==
    /\ tok_idx' = 1 /\ current_time' = 0
    /\ last_duration_val' = DefaultDuration
    /\ current_bar_duration' = 0 /\ bar_counter' = 1
    /\ in_chord' = FALSE /\ chord_start_time' = 0
    /\ chord_max_duration' = 0 /\ chord_max_beat_len' = 0
    /\ chord_event_indices' = <<>> /\ raw_events' = <<>>
    /\ warnings' = <<>>

\* get_audio_data after its call of parse: the buffer is built and added to
\* the list of tracks
GetAudioData ==
    /\ pc = "score_done"
    /\ \E level \in Samples :
          audio_tracks' = Append(audio_tracks, get_audio_data(merged, level))
    /\ pc' = "mix"
    /\ UNCHANGED <<midiVars, lilyVars, sample_rate, overtones, voiceVars, wave, gain,
                   mixed, wav, previous,
                   transVars>>

\* r4 c4 e8~ e8
VoiceTokens ==
    {Note("r", 4, 0, FALSE), Note("c", 4, 0, FALSE), Note("e", 8, 0, TRUE),
     Note("e", 8, 0, FALSE)}
Voices == SeqsUpTo(VoiceTokens, MaxVoiceTokens)

\* get_audio_data is called for one more voice
NextVoice ==
    /\ pc = "mix"
    /\ Len(audio_tracks) < MaxVoices
    /\ tokens' \in Voices
    /\ EnterParse
    /\ merged' = <<>>
    /\ pc' = "tokens"
    /\ UNCHANGED <<midiVars, bpm, validate, target_bar_len, audioVars,
                   previous,
                   transVars>>

NextRender ==
    \/ ParseToken
    \/ ProcessTies
    \/ GetAudioData
    \/ NextVoice
    \/ SaveMixedWav

InitRender ==
    /\ pc = "tokens"
    /\ ParseIdle /\ tempo_map = <<>> /\ tracks_data = <<>> /\ PairIdle
    /\ bpm = 100 /\ validate = TRUE /\ target_bar_len = 4 * UnitsPerBeat
    /\ tokens \in Voices
    /\ ScoreIdle
    /\ merged = <<>>
    /\ sample_rate = RenderRate /\ overtones = <<100, 60, 30, 10, 5>>
    /\ VoiceIdle
    /\ wave = NoWave
    /\ audio_tracks = <<>> /\ gain = DefaultGain /\ mixed = <<>>
    /\ wav = NoFile
    /\ previous = <<>>
    /\ TransIdle

SpecRender == InitRender /\ [][NextRender]_vars

----------------------------------------------------------------------------
(* Repeated calls: get_parsed_notes is called again on the same MidiParser *)
(* and parse again with the same score; previous holds what the earlier    *)
(* calls returned.                                                         *)

\* the caller keeps the list and calls get_parsed_notes again
GetParsedNotesAgain ==
    /\ pc = "done"
    /\ Len(previous) + 1 < MaxCalls
    /\ previous' = Append(previous, processed_tracks)
    /\ pc' = "parsed"
    /\ UNCHANGED <<midiVars, lilyVars, audioVars, transVars>>

\* the caller keeps the list and calls parse again with the same score
ParseAgain ==
    /\ pc = "score_done"
    /\ Len(previous) + 1 < MaxCalls
    /\ previous' = Append(previous, merged)
    /\ EnterParse
    /\ merged' = <<>>
    /\ pc' = "tokens"
    /\ UNCHANGED <<midiVars, synthVars, audioVars, transVars>>

NextRepeat ==
    \/ GetParsedNotes
    \/ BeginTrack
    \/ PairEvent
    \/ FinishTrack
    \/ ReturnTracks
    \/ GetParsedNotesAgain
    \/ ParseToken
    \/ ProcessTies
    \/ ParseAgain

RepeatSteps ==
    {[delta |-> 0,  type |-> "note_on",  ch |-> 0, note |-> 60, vel |-> 100],
     [delta |-> 10, type |-> "note_on",  ch |-> 0, note |-> 60, vel |-> 80],
     [delta |-> 10, type |-> "note_off", ch |-> 0, note |-> 60],
     [delta |-> 0,  type |-> "note_off", ch |-> 0, note |-> 60]}

RepeatTracks ==
    {TrackOf(steps) : steps \in SeqsUpTo(RepeatSteps, MaxTrackEvents)}

\* c4~ c c8 < >
RepeatTokens ==
    {Note("c", 4, 0, TRUE), Note("c", 0, 0, FALSE), Note("c", 8, 0, FALSE),
     Open, Close(0, 0, FALSE)}

\* a decoded file of one or two equal tracks
InitRepeatNotes ==
    /\ pc = "parsed"
    /\ ParseIdle
    /\ tempo_map \in TempoMaps
    /\ tracks_data \in {<<t>> : t \in RepeatTracks}
                          \cup {<<t, t>> : t \in RepeatTracks}
    /\ PairIdle
    /\ LilyIdle
    /\ AudioIdle
    /\ previous = <<>>
    /\ TransIdle

InitRepeatScore == InitScore(RepeatTokens)

InitRepeat == InitRepeatNotes \/ InitRepeatScore

SpecRepeat == InitRepeat /\ [][NextRepeat]_vars

----------------------------------------------------------------------------
(* get_parsed_notes on a decoded file of several tracks: a key is opened   *)
(* in one track and closed in another.                                      *)

OnStep  == [delta |-> 0,  type |-> "note_on",  ch |-> 0, note |-> 60,
            vel |-> 100]
OffStep == [delta |-> 10, type |-> "note_off", ch |-> 0, note |-> 60]

\* no event, NoteOn, NoteOff, NoteOn NoteOff, NoteOff NoteOn
SeveralTracks ==
    {TrackOf(<<>>), TrackOf(<<OnStep>>), TrackOf(<<OffStep>>),
     TrackOf(<<OnStep, OffStep>>), TrackOf(<<OffStep, OnStep>>)}

InitSeveral ==
    /\ pc = "parsed"
    /\ ParseIdle
    /\ tempo_map = << <<0, DefaultTempo>> >>
    /\ tracks_data \in SeqsUpTo(SeveralTracks, MaxTracks)
    /\ PairIdle
    /\ LilyIdle
    /\ AudioIdle
    /\ previous = <<>>
    /\ TransIdle

SpecSeveral == InitSeveral /\ [][NextPair]_vars

----------------------------------------------------------------------------
(* Bar validation: a score is parsed by a Synth with or without validation *)
(* in 4/4 or 3/4, and a validated score is parsed once more by a Synth     *)
(* without.                                                                *)

\* Synth(validate=False).parse(score) after Synth(validate=True).parse(score)
ParseUnvalidated ==
    /\ pc = "score_done"
    /\ validate
    /\ previous = <<>>
    /\ previous' = <<[events |-> merged, warnings |-> warnings]>>
    /\ validate' = FALSE
    /\ EnterParse
    /\ merged' = <<>>
    /\ pc' = "tokens"
    /\ UNCHANGED <<midiVars, bpm, target_bar_len, tokens, audioVars,
                   transVars>>

NextBars ==
    \/ ParseToken
    \/ ProcessTies
    \/ ParseUnvalidated

\* | c1 c2 c2. c
BarTokens ==
    {Bar, Note("c", 1, 0, FALSE), Note("c", 2, 0, FALSE),
     Note("c", 2, 1, FALSE), Note("c", 0, 0, FALSE)}

\* target_bar_len of time="4/4" and of time="3/4"
Meters == {4 * UnitsPerBeat, 3 * UnitsPerBeat}

InitBars ==
    /\ pc = "tokens"
    /\ ParseIdle /\ tempo_map = <<>> /\ tracks_data = <<>> /\ PairIdle
    /\ bpm = 100 /\ validate \in BOOLEAN /\ target_bar_len \in Meters
    /\ tokens \in SeqsUpTo(BarTokens, MaxTokens)
    /\ ScoreIdle
    /\ merged = <<>>
    /\ AudioIdle
    /\ previous = <<>>
    /\ TransIdle

SpecBars == InitBars /\ [][NextBars]_vars

----------------------------------------------------------------------------
(* mivi.py, MidiSynth.generate_track_audio and the loop of main that       *)
(* renders the tracks, one after the other, with one MidiSynth.            *)
(*                                                                         *)
(* start and dur of a note are microseconds here.  The samples of a wave   *)
(* are not computed: a sample of the buffer is the sequence of the waves   *)
(* added to it, in the order of the notes, each with all that              *)
(* _generate_wave computes the sample from.                                *)

\* a branch for the drums only: the other channels keep self.release_time
channel_release_time_drums_only(channel_id) ==
    IF channel_id = 9 THEN 50000 ELSE release_time

\* self.release_time after `if channel_id == 9 ... elif channel_id % 2 == 0
\* ... else ...`
channel_release_time(channel_id) ==
    IF channel_id = 9 THEN 50000
    ELSE IF channel_id % 2 = 0 THEN 150000
    ELSE 300000

\* current_overtones after the same statement
channel_overtones(channel_id) ==
    IF channel_id = 9 THEN <<100>>
    ELSE IF channel_id % 2 = 0 THEN <<100, 60, 30, 10, 5>>
    ELSE <<80, 80, 50, 20>>

\* the call of _generate_wave for a note: freq is 100 Hz or the MIDI number
\* that _midi_to_freq is applied to; len is num_samples and sustain is
\* n_sustain_end of _generate_wave with self.release_time = release; attack
\* is the self.attack_time that n_attack is computed from
note_wave(note, channel_id, release) ==
    IF note.ch = 9
    THEN [freq |-> <<"hz", 100>>, vel |-> note.vel, overtones |-> <<100>>,
          attack |-> attack_time,
          sustain |-> to_samples(DrumDuration),
          len |-> to_samples(DrumDuration + release)]
    ELSE [freq |-> <<"midi", note.midi>>, vel |-> note.vel,
          overtones |-> channel_overtones(channel_id),
          attack |-> attack_time,
          sustain |-> to_samples(note.dur),
          len |-> to_samples(note.dur + release)]

\* len(buffer) when generate_track_audio returns: total_samples, or the end
\* of a wave for which the buffer was padded
track_buffer_len(ns, channel_id, release) ==
    SetMax({to_samples(last_end(ns) + release + MidiTailTime)}
           \cup {to_samples(ns[i].start)
                    + note_wave(ns[i], channel_id, release).len :
                 i \in 1..Len(ns)})

\* the waves of the notes before note i + 1 that cover sample k, each with
\* the index of the sample in the wave
RECURSIVE waves_at(_, _, _, _, _)
waves_at(ns, i, k, channel_id, release) ==
    IF i = 0 THEN <<>>
    ELSE LET w       == note_wave(ns[i], channel_id, release)
             first == to_samples(ns[i].start)
             before  == waves_at(ns, i - 1, k, channel_id, release)
         IN  IF first < k /\ k <= first + w.len
             THEN Append(before, [wave |-> w, at |-> k - first])
             ELSE before

\* the buffer generate_track_audio returns when self.release_time is
\* release after the branch on channel_id
track_buffer(ns, channel_id, release) ==
    IF ns = <<>> THEN <<>>
    ELSE [k \in 1..track_buffer_len(ns, channel_id, release) |->
             waves_at(ns, Len(ns), k, channel_id, release)]

\* one iteration of `for i, track in enumerate(tracks_struct)` of main:
\* buf = synth.generate_track_audio(notes, channel)
GenerateTrackAudio ==
    /\ pc = "synth"
    /\ track_idx <= Len(processed_tracks)
    /\ LET track == processed_tracks[track_idx]
       IN  IF track.notes = <<>>
           THEN UNCHANGED <<overtones, release_time, audio_tracks>>
           ELSE /\ overtones' = channel_overtones(track.channel)
                /\ release_time' = channel_release_time(track.channel)
                /\ audio_tracks' =
                      Append(audio_tracks,
                             track_buffer(track.notes, track.channel,
                                          release_time'))
    /\ track_idx' = track_idx + 1
    /\ UNCHANGED <<pc, parseVars, tempo_map, tracks_data, ev_idx,
                   active_notes, notes, track_color, track_channel,
                   processed_tracks, lilyVars, sample_rate, attack_time,
                   instrument, wave, gain, mixed, wav, previous,
                   transVars>>

\* a note as get_parsed_notes appends it
TrackNote(midi, start, dur, vel, ch) ==
    [midi |-> midi, start |-> start, dur |-> dur, vel |-> vel, ch |-> ch,
     color |-> channel_color(ch)]

\* the notes of a track: a note of channel 0, a drum note, and a note of
\* channel 1 that sounds until the end of the track
TrackNotes ==
    {<<TrackNote(60, 0, 500000, 100, 0)>>,
     <<TrackNote(36, 250000, 100000, 80, 9)>>,
     <<TrackNote(60, 0, 500000, 100, 0), TrackNote(64, 0, 1000000, 90, 1)>>}
TrackChannels == {0, 1, 9}
Tracks ==
    {[notes |-> n, color |-> channel_color(c), channel |-> c] :
        n \in TrackNotes, c \in TrackChannels}

\* synth = MidiSynth() for the tracks get_parsed_notes returned
InitTracks ==
    /\ pc = "synth"
    /\ ParseIdle /\ tempo_map = <<>> /\ tracks_data = <<>>
    /\ track_idx = 1 /\ ev_idx = 1
    /\ active_notes = NoActiveNotes /\ notes = <<>>
    /\ track_color = DefaultColor /\ track_channel = 0
    /\ processed_tracks \in SeqsUpTo(Tracks, MaxTracks)
    /\ LilyIdle
    /\ sample_rate = RenderRate
    /\ overtones = <<100, 50, 30, 10>>
    /\ attack_time = AttackTime /\ release_time = MidiReleaseTime
    /\ instrument = NoInstrument
    /\ wave = NoWave
    /\ audio_tracks = <<>> /\ gain = MidiGain /\ mixed = <<>>
    /\ wav = NoFile
    /\ previous = <<>>
    /\ TransIdle

SpecTracks == InitTracks /\ [][GenerateTrackAudio]_vars

----------------------------------------------------------------------------
(* lilysynth.py, Synth.__init__ with an instrument and                     *)
(* Synth.set_instrument: the selection of a preset by its name.            *)
(*                                                                         *)
(* The presets are those with overtone amplitudes that are multiples of    *)
(* 1/AmplitudeUnit; violin, piano, harpsichord and chiptune, with          *)
(* amplitudes such as 1/n, are not among the names drawn.                  *)

PresetNames == {"pure_sine", "flute", "organ", "clarinet", "bell"}

\* a method of Synth that is no preset and takes an argument; an attribute
\* that is not callable; a name that is no attribute of Synth
OtherMethods == {"parse"}
OtherAttributes == {"bpm"}
InstrumentNames ==
    PresetNames \cup OtherMethods \cup OtherAttributes
        \cup {NoInstrument, "tuba"}

\* what the preset method sets: overtones, attack_time, release_time
preset(name) ==
    CASE name = "pure_sine" ->
           [overtones |-> <<100>>,
            attack_time |-> 50000, release_time |-> 100000]
      [] name = "flute" ->
           [overtones |-> <<100, 50, 20>>,
            attack_time |-> 100000, release_time |-> 100000]
      [] name = "organ" ->
           [overtones |-> <<100, 50, 50, 30, 20, 10, 5, 5>>,
            attack_time |-> 80000, release_time |-> 200000]
      [] name = "clarinet" ->
           [overtones |-> <<100, 0, 50, 0, 30, 0, 10>>,
            attack_time |-> 80000, release_time |-> 100000]
      [] name = "bell" ->
           [overtones |-> <<100, 0, 0, 50, 0, 80, 0, 0, 30>>,
            attack_time |-> 5000, release_time |-> 1500000]

\* the end of Synth.__init__: `if instrument is not None: ...`
Construct ==
    /\ pc = "construct"
    /\ IF instrument = NoInstrument
       THEN /\ pc' = "tokens"
            /\ UNCHANGED <<overtones, attack_time, release_time>>
       ELSE IF instrument \in PresetNames
       THEN \* preset_method()
            /\ pc' = "tokens"
            /\ overtones' = preset(instrument).overtones
            /\ attack_time' = preset(instrument).attack_time
            /\ release_time' = preset(instrument).release_time
       ELSE IF instrument \in OtherMethods
       THEN \* preset_method() without its argument raises TypeError
            /\ pc' = "error"
            /\ UNCHANGED <<overtones, attack_time, release_time>>
       ELSE \* getattr gave None or a value that is not callable:
            \* "nicht gefunden, nutze Default" is printed
            /\ pc' = "tokens"
            /\ UNCHANGED <<overtones, attack_time, release_time>>
    /\ UNCHANGED <<midiVars, lilyVars, sample_rate, instrument, wave,
                   audio_tracks, gain, mixed, wav, previous,
                   transVars>>

\* set_instrument(name) on the Synth constructed: the class has no
\* attribute PRESETS, so `name in self.PRESETS` raises AttributeError
SetInstrument ==
    /\ pc = "tokens"
    /\ tok_idx = 1
    /\ \E name \in InstrumentNames \ {NoInstrument} : instrument' = name
    /\ pc' = "error"
    /\ UNCHANGED <<midiVars, lilyVars, sample_rate, overtones, attack_time,
                   release_time, wave, audio_tracks, gain, mixed, wav,
                   previous,
                   transVars>>

NextPreset ==
    \/ Construct
    \/ SetInstrument
    \/ ParseToken
    \/ ProcessTies
    \/ GetAudioData

\* Synth(instrument=...) before the selection of the preset, with the score
\* that get_audio_data is called with
InitPreset ==
    /\ pc = "construct"
    /\ ParseIdle /\ tempo_map = <<>> /\ tracks_data = <<>> /\ PairIdle
    /\ bpm = 100 /\ validate = TRUE /\ target_bar_len = 4 * UnitsPerBeat
    /\ tokens \in Voices
    /\ ScoreIdle
    /\ merged = <<>>
    /\ sample_rate = RenderRate /\ overtones = <<100, 60, 30, 10, 5>>
    /\ attack_time = AttackTime /\ release_time = ReleaseTime
    /\ instrument \in InstrumentNames
    /\ wave = NoWave
    /\ audio_tracks = <<>> /\ gain = DefaultGain /\ mixed = <<>>
    /\ wav = NoFile
    /\ previous = <<>>
    /\ TransIdle

SpecPreset == InitPreset /\ [][NextPreset]_vars

----------------------------------------------------------------------------
(* enhtrans.py: DiatonicTransposer. A note name and a text are sequences   *)
(* of characters; the text given to transpose_text is one match of the     *)
(* group "token" of self.pattern: letters followed by octave marks of one  *)
(* kind.                                                                    *)

NATURAL_SEMITONES == <<0, 2, 4, 5, 7, 9, 11>>

\* (steps, semitones) of INTERVALS
INTERVALS ==
    {<<0, 0>>, <<1, 1>>, <<1, 2>>, <<1, 3>>, <<2, 3>>, <<2, 4>>, <<3, 5>>,
     <<3, 6>>, <<4, 6>>, <<4, 7>>, <<5, 8>>, <<5, 9>>, <<6, 10>>, <<6, 11>>,
     <<7, 12>>}

std_chars == <<"c", "d", "e", "f", "g", "a", "b">>

RECURSIVE Times(_, _)
\* s * n of Python: n copies of s, none for n <= 0
Times(s, n) == IF n <= 0 THEN <<>> ELSE s \o Times(s, n - 1)

Sharp == <<"i", "s">>
Flat  == <<"e", "s">>

Bases == 0..6
Accidentals == -2..2

\* the entries of suffixes, by accidental
suffix_of(acc) == IF acc >= 0 THEN Times(Sharp, acc) ELSE Times(Flat, -acc)

\* base_char + suf of the loop over bases and suffixes
generated_name(lang, idx, acc) ==
    <<IF lang = "de" /\ idx = 6 THEN "h" ELSE std_chars[idx + 1]>>
        \o suffix_of(acc)

\* mapping[name] = value
Put(mapping, name, value) ==
    [n \in DOMAIN mapping \cup {name} |->
        IF n = name THEN value ELSE mapping[n]]

\* del mapping[k] for the keys that are in mapping
Del(mapping, keys) == [n \in DOMAIN mapping \ keys |-> mapping[n]]

\* _build_note_map(lang): name -> (base index, accidental)
build_note_map(lang) ==
    LET keys  == Bases \X Accidentals
        names == {generated_name(lang, k[1], k[2]) : k \in keys}
        gen   == [n \in names |->
                     CHOOSE k \in keys : generated_name(lang, k[1], k[2]) = n]
    IN  IF lang = "de"
        THEN LET m1 == Put(gen, <<"b">>, <<6, -1>>)
                 m2 == Put(m1, Flat, <<2, -1>>)
                 m3 == Put(m2, Flat \o Flat, <<2, -2>>)
                 m4 == Put(m3, <<"a", "s">>, <<5, -1>>)
                 m5 == Put(m4, <<"a", "s">> \o Flat, <<5, -2>>)
                 bad_keys == {<<"e">> \o Flat, <<"e">> \o Flat \o Flat,
                              <<"a">> \o Flat, <<"a">> \o Flat \o Flat,
                              <<"h">> \o Flat, <<"h">> \o Flat \o Flat}
             IN  Put(Del(m5, bad_keys), <<"h">> \o Flat \o Flat, <<6, -2>>)
        ELSE gen

\* the name _build_reverse_map gives (idx, acc) for lang "de", with "hes"
\* for (6, -1)
german_name_hes(idx, acc) ==
    IF idx = 6
    THEN CASE acc = 0  -> <<"h">>
           [] acc = 1  -> <<"h">> \o Sharp
           [] acc = 2  -> <<"h">> \o Sharp \o Sharp
           [] acc = -1 -> <<"h">> \o Flat
           [] acc = -2 -> <<"h">> \o Flat \o Flat
    ELSE IF idx = 2
    THEN CASE acc = -1 -> Flat
           [] acc = -2 -> Flat \o Flat
           [] acc > 0  -> <<"e">> \o Times(Sharp, acc)
           [] OTHER    -> <<"e">>
    ELSE IF idx = 5
    THEN CASE acc = -1 -> <<"a", "s">>
           [] acc = -2 -> <<"a", "s">> \o Flat
           [] acc > 0  -> <<"a">> \o Times(Sharp, acc)
           [] OTHER    -> <<"a">>
    ELSE <<std_chars[idx + 1]>>
            \o (IF acc > 0 THEN Times(Sharp, acc) ELSE Times(Flat, -acc))

\* the name _build_reverse_map gives (idx, acc) for lang "de"
german_name(idx, acc) ==
    IF idx = 6
    THEN CASE acc = 0  -> <<"h">>
           [] acc = 1  -> <<"h">> \o Sharp
           [] acc = 2  -> <<"h">> \o Sharp \o Sharp
           [] acc = -1 -> <<"b">>
           [] acc = -2 -> <<"h">> \o Flat \o Flat
    ELSE IF idx = 2
    THEN CASE acc = -1 -> Flat
           [] acc = -2 -> Flat \o Flat
           [] acc > 0  -> <<"e">> \o Times(Sharp, acc)
           [] OTHER    -> <<"e">>
    ELSE IF idx = 5
    THEN CASE acc = -1 -> <<"a", "s">>
           [] acc = -2 -> <<"a", "s">> \o Flat
           [] acc > 0  -> <<"a">> \o Times(Sharp, acc)
           [] OTHER    -> <<"a">>
    ELSE <<std_chars[idx + 1]>>
            \o (IF acc > 0 THEN Times(Sharp, acc) ELSE Times(Flat, -acc))

\* _build_reverse_map(lang): (base index, accidental) -> name; the name is
\* "" for a language that is neither "en" nor "de"
build_reverse_map(lang) ==
    [k \in Bases \X Accidentals |->
        IF lang = "en" THEN <<std_chars[k[1] + 1]>> \o suffix_of(k[2])
        ELSE IF lang = "de" THEN german_name(k[1], k[2])
        ELSE <<>>]

Languages == {"en", "de"}

\* the maps of the languages, built once
note_maps    == [lang \in Languages |-> build_note_map(lang)]
reverse_maps == [lang \in Languages |-> build_reverse_map(lang)]

\* self.note_map and self.reverse_map of DiatonicTransposer.__init__
note_map    == note_maps[input_lang]
reverse_map == reverse_maps[output_lang]

OctaveMarks == {"'", ","}

RECURSIVE letters_of(_)
\* group 1 of re.match(r"([a-zA-Z]+)([' ,]*)", token)
letters_of(token) ==
    IF token = <<>> \/ Head(token) \in OctaveMarks THEN <<>>
    ELSE <<Head(token)>> \o letters_of(Tail(token))

\* group 2 of the same match
marks_of(token) ==
    SubSeq(token, Len(letters_of(token)) + 1, Len(token))

\* oct_part.count(ch)
count(oct_part, ch) ==
    Cardinality({i \in 1..Len(oct_part) : oct_part[i] = ch})

\* oct_shift as the quotient rounded towards zero
oct_shift_truncated(old_base_idx, steps) ==
    IF old_base_idx + steps >= 0 THEN (old_base_idx + steps) \div 7
    ELSE -((-(old_base_idx + steps)) \div 7)

\* oct_shift = (old_base_idx + interval_steps) // 7
oct_shift(old_base_idx, steps) == (old_base_idx + steps) \div 7

\* the transposition calculation of replace_func for a token whose name
\* is in note_map: new_base_idx, new_accidental, new_octave
transposed(token, steps, semitones) ==
    LET entry        == note_map[letters_of(token)]
        old_base_idx == entry[1]
        accidental   == entry[2]
        curr_octave  == count(marks_of(token), "'")
                           - count(marks_of(token), ",")
        new_base_idx == (old_base_idx + steps) % 7
        shift        == oct_shift(old_base_idx, steps)
        old_abs      == NATURAL_SEMITONES[old_base_idx + 1] + accidental
        target_abs   == old_abs + semitones
    IN  [base_idx   |-> new_base_idx,
         accidental |-> target_abs
                          - (NATURAL_SEMITONES[new_base_idx + 1] + shift * 12),
         octave     |-> curr_octave + shift]

\* the formatting of replace_func: the name of reverse_map, or the generic
\* name for an accidental that is not in it, and the octave marks
formatted(n) ==
    LET k        == <<n.base_idx, n.accidental>>
        base_c   == IF output_lang = "de" /\ n.base_idx = 6 THEN "h"
                    ELSE std_chars[n.base_idx + 1]
        new_name == IF k \in DOMAIN reverse_map THEN reverse_map[k]
                    ELSE <<base_c>> \o Times(Sharp, n.accidental)
                                    \o Times(Flat, -n.accidental)
    IN  new_name \o Times(<<"'">>, n.octave) \o Times(<<",">>, -n.octave)

\* replace_func for a match of the group "token"
replace_func(token, steps, semitones) ==
    IF letters_of(token) \notin DOMAIN note_map THEN token
    ELSE formatted(transposed(token, steps, semitones))

\* transpose_text for a text that is one match of the group "token"
transpose_text(t, steps, semitones) == replace_func(t, steps, semitones)

\* octave marks on either side
MaxMarks == 2

\* intervals that are not in INTERVALS: augmented unison, diminished second,
\* doubly augmented second, augmented octave, diminished ninth
OtherIntervals == {<<0, 1>>, <<1, 0>>, <<1, 4>>, <<7, 13>>, <<8, 12>>}

\* the notes of both languages and names that are no note: "cs", and
\* "hes", "ees", which are a note of one language only or of none
TokenNames ==
    DOMAIN note_maps["en"] \cup DOMAIN note_maps["de"]
        \cup {<<"c", "s">>, <<"h">> \o Flat}

Tokens ==
    {n \o Times(<<m[1]>>, m[2]) :
        n \in TokenNames, m \in OctaveMarks \X (0..MaxMarks)}

\* DiatonicTransposer(input_lang, output_lang) and the arguments of
\* transpose_text, upwards and downwards
InitTranspose ==
    /\ pc = "text"
    /\ ParseIdle /\ tempo_map = <<>> /\ tracks_data = <<>>
    /\ PairIdle
    /\ LilyIdle
    /\ AudioIdle
    /\ previous = <<>>
    /\ input_lang \in Languages
    /\ output_lang \in Languages
    /\ text \in Tokens
    /\ \E i \in INTERVALS \cup OtherIntervals, sign \in {1, -1} :
          interval_steps = sign * i[1] /\ interval_semitones = sign * i[2]
    /\ out_text = <<>>

\* result = tp.transpose_text(raw_text, steps, semitones)
TransposeText ==
    /\ pc = "text"
    /\ pc' = "transposed"
    /\ out_text' = transpose_text(text, interval_steps, interval_semitones)
    /\ UNCHANGED <<midiVars, lilyVars, audioVars, previous, input_lang,
                   output_lang, text, interval_steps, interval_semitones>>

\* the result is transposed by the negated interval with the same object
TransposeBack ==
    /\ pc = "transposed"
    /\ pc' = "returned"
    /\ previous' = <<[text |-> text, out_text |-> out_text]>>
    /\ text' = out_text
    /\ interval_steps' = -interval_steps
    /\ interval_semitones' = -interval_semitones
    /\ out_text' = transpose_text(out_text, -interval_steps,
                                  -interval_semitones)
    /\ UNCHANGED <<midiVars, lilyVars, audioVars, input_lang, output_lang>>

NextTranspose ==
    \/ TransposeText
    \/ TransposeBack

SpecTranspose == InitTranspose /\ [][NextTranspose]_vars

----------------------------------------------------------------------------
(* Claims about the decoder. *)

\* the file whose only track is [0x90,60,100] [61,100] [0x80,60,0]
RunningStatusFile ==
    HeaderChunk(1, DefaultTicksPerBeat)
        \o TrackChunk(NoteOn60 \o Running61 \o NoteOff60)

\* C1, one iteration: the byte behind the delta time is a data byte and the
\* running status is a channel status
C1_RunningStep ==
    LET delta == read_variable_length(pos)
        p1    == delta.pos
        byte  == data[p1 + 1]
        last  == events'[Len(events')]
    IN  (/\ pc = "events" /\ pos < track_end /\ pc' # "error"
         /\ p1 < Len(data) /\ byte < 128
         /\ running_status >= 128 /\ running_status <= 239)
        => /\ running_status' = running_status
           /\ (running_status \div 16 \in {8, 9}) =>
                 /\ Len(events') = Len(events) + 1
                 /\ SubSeq(events', 1, Len(events)) = events
                 /\ last.tick = abs_tick + delta.value
                 /\ last.ch = running_status % 16
                 /\ last.note = byte
                 /\ last.type =
                      IF running_status \div 16 = 9 /\ data[p1 + 2] > 0
                      THEN "note_on" ELSE "note_off"
                 /\ (last.type = "note_on" => last.vel = data[p1 + 2])
                 /\ pos' = p1 + 2

\* C1: a data byte at the status position is the first data byte of an event
\* of the running channel status, for any number of consecutive status-less
\* events; the track [0x90,60,100] [61,100] [0x80,60,0] decodes to NoteOn 60,
\* NoteOn 61 (channel 0) and NoteOff 60.
C1_RunningStatus ==
    /\ [][C1_RunningStep]_vars
    /\ [](data = RunningStatusFile /\ pc = "parsed" =>
            tracks_data =
              << << [tick |-> 0, type |-> "note_on", note |-> 60, ch |-> 0,
                     vel |-> 100],
                    [tick |-> 10, type |-> "note_on", note |-> 61, ch |-> 0,
                     vel |-> 100],
                    [tick |-> 20, type |-> "note_off", note |-> 60,
                     ch |-> 0] >> >>)

\* C1 witness: a track decoded with two NoteOn taken from running status in
\* a row
C1_Witness ==
    /\ pc = "parsed"
    /\ tracks_data # <<>>
    /\ Len(tracks_data[1]) = 3
    /\ \A i \in 1..3 : tracks_data[1][i].type = "note_on"
    /\ tracks_data[1][2].note = 61 /\ tracks_data[1][3].note = 61

\* decoding has returned without an error
Decoded == pc \in {"parsed", "next_track", "pairing", "done"}

\* C13 as claimed: a file which ends before its declared content is
\* complete is not decoded: decoding fails
C13_TruncatedFails == data \in TruncatedFiles => ~Decoded

\* the first four bytes are not the header tag, or the division of a
\* complete header has its high bit set
BadHeader ==
    \/ read(0, 4) # MThd
    \/ Len(data) >= 14 /\ data[13] >= 128

\* C14: with a wrong header tag or a frame-based division the header step
\* ends in an error, and no track is decoded and no note produced
C14_HeaderChecked ==
    /\ [][(pc = "header" /\ BadHeader) => pc' = "error"]_vars
    /\ [](BadHeader =>
            /\ pc \in {"header", "error"}
            /\ tracks_data = <<>> /\ events = <<>> /\ tempo_map = <<>>
            /\ notes = <<>> /\ processed_tracks = <<>>)

\* C14 witness: a file with the right tag, a frame-based division and a
\* track with a note has been refused
C14_Witness ==
    /\ pc = "error"
    /\ read(0, 4) = MThd
    /\ read_int_be(12, 2) = SmpteDivision
    /\ Len(data) > 14
    /\ tracks_data = <<>>

----------------------------------------------------------------------------
(* Claims about the tempo map. *)

IsSortedByTick(tm) == \A i \in 1..Len(tm) - 1 : tm[i][1] <= tm[i + 1][1]

\* the tempo in force during the tick [u, u + 1): that of the last
\* breakpoint at or before u, 500000 before the first
RateAt(tm, u) ==
    LET before == {i \in 1..Len(tm) : tm[i][1] <= u}
    IN  IF before = {} THEN 500000
        ELSE tm[CHOOSE i \in before : \A j \in before : j <= i][2]

\* C5: over a tempo map sorted by tick, _tick_to_seconds(t) is the sum over
\* the tempo segments of [0, t) of span * tempo / 1e6 / ticksPerBeat (here
\* multiplied by 1e6 * ticksPerBeat): it is 0 at tick 0 and every tick
\* [t, t + 1) adds the tempo in force at t; with ticksPerBeat 480 and the
\* single breakpoint (0, 500000), _tick_to_seconds(480) is 0.5 s.
C5_TickToSeconds ==
    /\ IsSortedByTick(tempo_map) =>
          /\ tick_to_seconds(0) = 0
          /\ \A t \in 0..MaxTick - 1 :
                tick_to_seconds(t + 1) - tick_to_seconds(t)
                    = RateAt(tempo_map, t)
    /\ (ticks_per_beat = 480 /\ tempo_map = << <<0, 500000>> >>) =>
          2 * tick_to_seconds(480) = 1000000 * ticks_per_beat

\* C5 witness: a note was timed across a breakpoint behind tick 0: ten
\* ticks at the default tempo and ten at the tempo of the breakpoint
C5_Witness ==
    /\ pc = "done"
    /\ tempo_map = << <<10, 200000>> >>
    /\ processed_tracks # <<>>
    /\ processed_tracks[1].notes[1].start = 0
    /\ processed_tracks[1].notes[1].dur = 10 * 500000 + 10 * 200000

HasTempoEvent ==
    \E i \in 1..Len(data) - 6 : SubSeq(data, i, i + 6) = Tempo200000

\* C6: with a BPM override the tempo map after parsing is the single
\* breakpoint (0, floor(60000000 / bpm)), whatever tempo events the file
\* holds, and _tick_to_seconds is linear in the tick.
C6_BpmOverride ==
    (target_bpm > 0 /\ pc \in {"parsed", "next_track", "pairing", "done"}) =>
        /\ tempo_map = << <<0, 60000000 \div target_bpm>> >>
        /\ \A t \in 0..MaxTick :
              tick_to_seconds(t) = t * (60000000 \div target_bpm)

\* C6 witness: a file with a tempo event in its second track, decoded under
\* an override
C6_Witness ==
    /\ target_bpm > 0
    /\ pc = "done"
    /\ Len(tracks_data) = 2
    /\ HasTempoEvent
    /\ processed_tracks # <<>>

TicksAscend(track_events) ==
    \A i \in 1..Len(track_events) - 1 :
        track_events[i].tick <= track_events[i + 1].tick

NotesFromZero(ns) ==
    \A i \in 1..Len(ns) : ns[i].start >= 0 /\ ns[i].dur >= 0

\* C19: within a track the absolute ticks never decrease, after parsing
\* _tick_to_seconds is non-decreasing in the tick, and every note
\* get_parsed_notes emits has start >= 0 and duration >= 0
C19_NotesFromZero ==
    /\ TicksAscend(events)
    /\ events # <<>> => events[Len(events)].tick <= abs_tick
    /\ \A i \in 1..Len(tracks_data) : TicksAscend(tracks_data[i])
    /\ pc \in {"parsed", "next_track", "pairing", "done"} =>
          \A t \in 0..MaxTick - 1 : tick_to_seconds(t) <= tick_to_seconds(t + 1)
    /\ NotesFromZero(notes)
    /\ \A i \in 1..Len(processed_tracks) :
          NotesFromZero(processed_tracks[i].notes)

\* C19 witness: a note that starts behind tick 0 and lasts was emitted
\* from a file whose tempo changes at tick 10
C19_Witness ==
    /\ pc = "done"
    /\ tempo_map = << <<10, 200000>> >>
    /\ processed_tracks # <<>>
    /\ \E i \in 1..Len(processed_tracks[1].notes) :
          /\ processed_tracks[1].notes[i].start > 0
          /\ processed_tracks[1].notes[i].dur > 0

----------------------------------------------------------------------------
(* Claims about the pairing of NoteOn and NoteOff. *)

KeyOf(e) == <<e.ch, e.note>>

\* the last event of track tr before index i with the key, 0 if none
PrevForKey(tr, i, key) ==
    LET before == {j \in 1..i - 1 : KeyOf(tr[j]) = key}
    IN  IF before = {} THEN 0
        ELSE CHOOSE j \in before : \A k \in before : k <= j

\* the first event of track tr behind index i with the key, 0 if none
NextForKey(tr, i, key) ==
    LET behind == {j \in i + 1..Len(tr) : KeyOf(tr[j]) = key}
    IN  IF behind = {} THEN 0
        ELSE CHOOSE j \in behind : \A k \in behind : j <= k

\* the NoteOn of the key that is unmatched just before event i, 0 if none
OpenOnset(tr, i, key) ==
    LET p == PrevForKey(tr, i, key)
    IN  IF p # 0 /\ tr[p].type = "note_on" THEN p ELSE 0

\* the NoteOffs of tr that close a note
ClosingOffs(tr) ==
    {m \in 1..Len(tr) :
        tr[m].type = "note_off" /\ OpenOnset(tr, m, KeyOf(tr[m])) # 0}

RemoveAt(tr, i) == SubSeq(tr, 1, i - 1) \o SubSeq(tr, i + 1, Len(tr))

\* the loop over the events of the current track has run to its end
TrackPaired == pc = "pairing" /\ ev_idx > Len(tracks_data[track_idx])

C2_PairStep ==
    LET tr  == tracks_data[track_idx]
        e   == tr[ev_idx]
        on  == OpenOnset(tr, ev_idx, KeyOf(e))
        new == notes'[Len(notes')]
    IN  (pc = "pairing" /\ ev_idx <= Len(tr) /\ e.type = "note_off") =>
           /\ (KeyOf(e) \in DOMAIN active_notes) <=> (on # 0)
           /\ IF KeyOf(e) \in DOMAIN active_notes
              THEN /\ Len(notes') = Len(notes) + 1
                   /\ SubSeq(notes', 1, Len(notes)) = notes
                   /\ new.midi = e.note /\ new.ch = e.ch
                   /\ new.start = tick_to_seconds(tr[on].tick)
                   /\ new.dur = tick_to_seconds(e.tick)
                                   - tick_to_seconds(tr[on].tick)
                   /\ new.vel = tr[on].vel
                   /\ KeyOf(e) \notin DOMAIN active_notes'
                   /\ \A k \in DOMAIN active_notes \ {KeyOf(e)} :
                         k \in DOMAIN active_notes'
              ELSE notes' = notes

\* C2: a NoteOff whose (channel, pitch) is in the active-note map emits
\* exactly one note, from secondsAt(onset tick) to secondsAt(NoteOff tick),
\* with the velocity of the most recent NoteOn of the key, and removes the
\* key; a second NoteOff with no NoteOn in between emits nothing.
C2_NoteOffCloses == [][C2_PairStep]_vars

\* C2 witness: NoteOn, NoteOff, NoteOff of one key were paired: one note
C2_Witness ==
    /\ TrackPaired
    /\ Len(tracks_data[track_idx]) = 3
    /\ tracks_data[track_idx][1].type = "note_on"
    /\ tracks_data[track_idx][2].type = "note_off"
    /\ tracks_data[track_idx][3].type = "note_off"
    /\ \A i \in 1..3 : KeyOf(tracks_data[track_idx][i]) = <<0, 60>>
    /\ Len(notes) = 1

\* NoteOn i of tr is followed, for its key, by another NoteOn first
Superseded(tr, i) ==
    LET n == NextForKey(tr, i, KeyOf(tr[i]))
    IN  tr[i].type = "note_on" /\ n # 0 /\ tr[n].type = "note_on"

\* C3: a NoteOn that is followed by a second NoteOn of the same key before
\* any NoteOff is lost: the next NoteOff of the key emits exactly one note,
\* with the onset and velocity of the later NoteOn, and the notes are those
\* of the track without the earlier NoteOn.
C3_NoteOnSupersedes ==
    TrackPaired =>
        LET tr == tracks_data[track_idx]
        IN  \A i \in 1..Len(tr) : Superseded(tr, i) =>
              /\ notes = track_notes(RemoveAt(tr, i))
              /\ Len(notes) = Cardinality(ClosingOffs(tr))
              /\ \A m \in ClosingOffs(tr) :
                    (m > i /\ KeyOf(tr[m]) = KeyOf(tr[i])) =>
                       LET on == OpenOnset(tr, m, KeyOf(tr[m]))
                           n  == notes[Cardinality(
                                   {c \in ClosingOffs(tr) : c <= m})]
                       IN  /\ on > i
                           /\ n.start = tick_to_seconds(tr[on].tick)
                           /\ n.vel = tr[on].vel

\* C3 witness: NoteOn 60 (velocity 100, tick 0), NoteOn 60 (velocity 80,
\* tick 10), NoteOff 60 were paired into the one note of the later NoteOn
C3_Witness ==
    /\ TrackPaired
    /\ Len(tracks_data[track_idx]) = 3
    /\ Superseded(tracks_data[track_idx], 1)
    /\ tracks_data[track_idx][1].vel = 100
    /\ tracks_data[track_idx][3].type = "note_off"
    /\ Len(notes) = 1
    /\ notes[1].vel = 80
    /\ notes[1].start = tick_to_seconds(10)

\* NoteOn i of tr has no NoteOff of its key behind it
Unmatched(tr, i) ==
    /\ tr[i].type = "note_on"
    /\ \A j \in i + 1..Len(tr) :
          ~(tr[j].type = "note_off" /\ KeyOf(tr[j]) = KeyOf(tr[i]))

\* C4: a NoteOn without a NoteOff of its key before the end of the track is
\* not emitted and is no error: the notes of the track are those of the
\* track without that NoteOn.
C4_UnmatchedDropped ==
    TrackPaired =>
        LET tr == tracks_data[track_idx]
        IN  /\ pc # "error"
            /\ \A i \in 1..Len(tr) : Unmatched(tr, i) =>
                  notes = track_notes(RemoveAt(tr, i))

\* C4 witness: a track with a closed note and an unmatched NoteOn of
\* another key
C4_Witness ==
    /\ TrackPaired
    /\ \E i \in 1..Len(tracks_data[track_idx]) :
          /\ Unmatched(tracks_data[track_idx], i)
          /\ KeyOf(tracks_data[track_idx][i]) = <<0, 61>>
    /\ Len(notes) = 1
    /\ notes[1].midi = 60

\* C10 as claimed: the notes of a track are in non-decreasing order of
\* their start time
C10_StartOrdered ==
    TrackPaired =>
        \A k \in 1..Len(notes) - 1 : notes[k].start <= notes[k + 1].start

\* C10, amended: the notes of a track are in the order of their NoteOffs,
\* that is in non-decreasing order of their end time
C10_EndOrdered ==
    \A k \in 1..Len(notes) - 1 :
        notes[k].start + notes[k].dur <= notes[k + 1].start + notes[k + 1].dur

\* C10 witness: two overlapping notes, the one emitted first started later
C10_Witness ==
    /\ TrackPaired
    /\ Len(notes) = 2
    /\ notes[1].start > notes[2].start
    /\ notes[1].start + notes[1].dur < notes[2].start + notes[2].dur

----------------------------------------------------------------------------
(* Claims about the notation parser. *)

\* the pitch a note token names
TokenFreq(token) == get_freq(token.base, token.oct, acc_val(token.acc))

RECURSIVE InChordAt(_, _)
\* whether token k of toks is read inside a chord: the last bracket before
\* it is a '<'
InChordAt(toks, k) ==
    IF k <= 1 THEN FALSE
    ELSE IF toks[k - 1].kind = "open" THEN TRUE
    ELSE IF toks[k - 1].kind = "close" THEN FALSE
    ELSE InChordAt(toks, k - 1)

\* every '<' is read outside a chord and every '>' inside one
WellBracketed(toks) ==
    \A k \in 1..Len(toks) :
        /\ toks[k].kind = "open" => ~InChordAt(toks, k)
        /\ toks[k].kind = "close" => InChordAt(toks, k)

\* the index in raw_events of the event of note token k
EventIndex(toks, k) == Cardinality({p \in 1..k : toks[p].kind = "note"})

RECURSIVE DurationInEffect(_, _)
\* the duration number in effect at token k: the last one written up to k
DurationInEffect(toks, k) ==
    IF k = 0 THEN DefaultDuration
    ELSE IF toks[k].kind \in {"note", "close"} /\ toks[k].dur # 0
         THEN toks[k].dur
    ELSE DurationInEffect(toks, k - 1)

\* the beat length written on token k (a note or a '>')
WrittenBeats(toks, k) ==
    with_dots(beat_len(DurationInEffect(toks, k)), toks[k].dots)

\* the note tokens of the chord which the '>' at position k closes
MemberTokens(toks, k) ==
    {q \in 1..(k - 1) :
        /\ toks[q].kind = "note"
        /\ \E p \in 1..(q - 1) : toks[p].kind = "open"
        /\ \A p \in (q + 1)..(k - 1) : toks[p].kind # "open"}

\* tokens i..j are sequential notes of one pitch, all but the last tied
IsChain(toks, i, j) ==
    /\ i < j
    /\ \A k \in i..j :
          /\ toks[k].kind = "note"
          /\ ~InChordAt(toks, k)
          /\ TokenFreq(toks[k]) = TokenFreq(toks[i])
          /\ toks[k].tie <=> k < j
    /\ TokenFreq(toks[i]) # 0

RECURSIVE ChainDuration(_, _, _)
\* the sum of the durations of the events of tokens i..j
ChainDuration(toks, i, j) ==
    IF j < i THEN 0
    ELSE raw_events[EventIndex(toks, j)].dur + ChainDuration(toks, i, j - 1)

\* no tied note of frequency freq ends where the chain starts: the chain is
\* not the tail of a longer one
ChainHead(freq, start) ==
    \A n \in 1..Len(raw_events) :
        ~ /\ raw_events[n].tied
          /\ raw_events[n].freq = freq
          /\ Abs(raw_events[n].start + raw_events[n].dur - start) < TieEpsilon

\* C7: in a well-bracketed score a chain of k >= 2 consecutive sequential
\* notes of one pitch, each but the last tied, gives exactly one event in
\* the result; it starts where the first note starts and lasts the sum of
\* the durations of the notes.  At 100 BPM `c4~ c4` gives one event of 1.2 s.
C7_TieChain ==
    /\ (pc = "score_done" /\ WellBracketed(tokens)) =>
          \A i, j \in 1..Len(tokens) :
              (/\ IsChain(tokens, i, j)
               /\ ChainHead(TokenFreq(tokens[i]),
                            raw_events[EventIndex(tokens, i)].start)) =>
                  LET first == raw_events[EventIndex(tokens, i)]
                      total == ChainDuration(tokens, i, j)
                      hits == {m \in 1..Len(merged) :
                                  /\ merged[m].freq = first.freq
                                  /\ merged[m].start >= first.start
                                  /\ merged[m].start < first.start + total}
                  IN  /\ Cardinality(hits) = 1
                      /\ \A m \in hits :
                            /\ merged[m].start = first.start
                            /\ merged[m].dur = total
    /\ (/\ pc = "score_done"
        /\ bpm = 100
        /\ tokens = <<Note("c", 4, 0, TRUE), Note("c", 4, 0, FALSE)>>) =>
          /\ Len(merged) = 1
          /\ merged[1].start = 0
          /\ merged[1].dur = 1200000

\* C7 witness: the chain c4~ c~ c8 has become one event of 0.6 + 0.6 + 0.3 s
C7_Witness ==
    /\ pc = "score_done"
    /\ tokens = <<Note("c", 4, 0, TRUE), Note("c", 0, 0, TRUE),
                  Note("c", 8, 0, FALSE)>>
    /\ Len(raw_events) = 3
    /\ Len(merged) = 1
    /\ merged[1].start = 0
    /\ merged[1].dur = 1500000

\* a step of parse which reads the token at tok_idx
ReadsToken == pc = "tokens" /\ tok_idx <= Len(tokens) /\ tok_idx' = tok_idx + 1

\* the indices in raw_events of the members of the chord closed at tok_idx
MemberEvents ==
    {EventIndex(tokens, q) : q \in MemberTokens(tokens, tok_idx)}

\* C8, one step: '<' records the cursor as the start of the chord and leaves
\* it in place; a note read inside the chord starts there and does not move
\* the cursor; a '>' without duration and dots leaves every member with the
\* start of the chord and the duration written on it, and puts the cursor
\* at the start of the chord plus the largest of these durations
C8_ChordStep ==
    ReadsToken =>
        LET token == tokens[tok_idx]
        IN  /\ token.kind = "open" =>
                  /\ chord_start_time' = current_time
                  /\ current_time' = current_time
                  /\ raw_events' = raw_events
            /\ (token.kind = "note" /\ in_chord) =>
                  /\ current_time' = current_time
                  /\ chord_start_time' = chord_start_time
                  /\ Len(raw_events') = Len(raw_events) + 1
                  /\ raw_events'[Len(raw_events')].start = chord_start_time
            /\ (/\ token.kind = "close" /\ in_chord
                /\ token.dur = 0 /\ token.dots = 0) =>
                  LET own(q) == to_seconds(WrittenBeats(tokens, q))
                      members == MemberTokens(tokens, tok_idx)
                  IN  /\ \A q \in members :
                            LET e == raw_events'[EventIndex(tokens, q)]
                            IN  /\ e.start = chord_start_time
                                /\ e.dur = own(q)
                      /\ Len(raw_events') = Len(raw_events)
                      /\ current_time' = chord_start_time
                                           + SetMax({own(q) : q \in members})

\* C8: chord members start at the cursor held when '<' was read; a chord
\* closed without a duration suffix keeps the members' own durations and
\* moves the cursor to the chord start plus the longest member duration
C8_ChordKeepsDurations == [][C8_ChordStep]_vars

\* C8 witness: < c2. e8 > has been read: both members start at 0, e8 keeps
\* 0.3 s and the cursor is at the 1.8 s of c2.
C8_Witness ==
    /\ pc = "tokens"
    /\ tokens = <<Open, Note("c", 2, 1, FALSE), Note("e", 8, 0, FALSE),
                  Close(0, 0, FALSE)>>
    /\ tok_idx = 5
    /\ raw_events[1].start = 0 /\ raw_events[1].dur = 1800000
    /\ raw_events[2].start = 0 /\ raw_events[2].dur = 300000
    /\ current_time = 1800000

\* C9, one step: a '>' with a duration number or dots gives every member
\* of the chord the duration written on the '>', moves the cursor to the
\* chord start plus that duration and adds its beat length to the bar
C9_ChordStep ==
    (/\ ReadsToken
     /\ tokens[tok_idx].kind = "close"
     /\ in_chord
     /\ (tokens[tok_idx].dur # 0 \/ tokens[tok_idx].dots # 0)) =>
        LET dq == WrittenBeats(tokens, tok_idx)
            dur_sec == to_seconds(dq)
        IN  /\ Len(raw_events') = Len(raw_events)
            /\ \A n \in 1..Len(raw_events) :
                  /\ raw_events'[n].start = raw_events[n].start
                  /\ raw_events'[n].dur =
                        IF n \in MemberEvents THEN dur_sec
                        ELSE raw_events[n].dur
            /\ current_time' = chord_start_time + dur_sec
            /\ current_bar_duration' = current_bar_duration + dq
            /\ (tokens[tok_idx] = Close(4, 0, FALSE) /\ bpm = 100) =>
                  /\ dur_sec = 600000
                  /\ dq = UnitsPerBeat

\* C9: a chord closed with an explicit duration and/or dots overrides the
\* duration of all its members; the cursor advances by the explicit
\* duration and the bar length grows by its beat length
C9_ChordOverridesDurations == [][C9_ChordStep]_vars

\* C9 witness: < c2. e8 >4 has been read: both members last 0.6 s, the
\* cursor is at 0.6 s and the bar holds one beat
C9_Witness ==
    /\ pc = "tokens"
    /\ tokens = <<Open, Note("c", 2, 1, FALSE), Note("e", 8, 0, FALSE),
                  Close(4, 0, FALSE)>>
    /\ tok_idx = 5
    /\ raw_events[1].dur = 600000
    /\ raw_events[2].dur = 600000
    /\ current_time = 600000
    /\ current_bar_duration = UnitsPerBeat

----------------------------------------------------------------------------
(* Claims about the mixer and the encoder. *)

\* the largest absolute sample written
WrittenPeak == SetMax({Abs(wav.frames[i]) : i \in 1..Len(wav.frames)})

\* C11: for a non-empty list of buffers with a mixed peak > 0 and a gain in
\* (0, 1], every sample written lies in the signed 16-bit range and the
\* largest absolute sample written is gain * 32767 cut to an integer, less
\* than one step below gain * 32767, whatever the mixed peak
C11_ScaledToGain ==
    (/\ pc = "mix_done" /\ audio_tracks # <<>>
     /\ peak(mixed) > 0 /\ gain > 0 /\ gain <= GainUnit) =>
        /\ wav.written
        /\ Len(wav.frames) = Len(mixed)
        /\ \A i \in 1..Len(wav.frames) :
              wav.frames[i] >= 0 - (FullScale + 1) /\ wav.frames[i] <= FullScale
        /\ WrittenPeak * GainUnit <= gain * FullScale
        /\ gain * FullScale < (WrittenPeak + 1) * GainUnit

\* C11 witness: two buffers whose sum peaks at 2.0 of full amplitude,
\* written at gain 0.8 with the peak 26213
C11_Witness ==
    /\ pc = "mix_done"
    /\ Len(audio_tracks) = 2
    /\ peak(mixed) = 2 * SampleUnit
    /\ gain = DefaultGain
    /\ wav.written
    /\ WrittenPeak = 26213

RECURSIVE SumAt(_, _, _)
\* the sum of the samples at index i of the first k buffers which are
\* longer than i - 1
SumAt(tracks, i, k) ==
    IF k = 0 THEN 0
    ELSE SumAt(tracks, i, k - 1)
           + (IF Len(tracks[k]) >= i THEN tracks[k][i] ELSE 0)

\* C12: the master buffer is as long as the longest buffer and holds at
\* every index the sum of the samples the buffers have there; buffers of
\* different lengths raise no error
C12_MixSums ==
    (pc \in {"mix_done", "error"} /\ audio_tracks # <<>>) =>
        /\ Len(mixed) = max_len(audio_tracks)
        /\ \A i \in 1..Len(mixed) :
              mixed[i] = SumAt(audio_tracks, i, Len(audio_tracks))
        /\ (\E k, n \in 1..Len(audio_tracks) :
                Len(audio_tracks[k]) # Len(audio_tracks[n])) => pc = "mix_done"

\* C12 witness: a buffer of one sample and a buffer of two samples are
\* mixed to two samples, the second taken from the longer buffer alone
C12_Witness ==
    /\ pc = "mix_done"
    /\ audio_tracks = << <<2>>, <<2, 0 - 3>> >>
    /\ mixed = <<4, 0 - 3>>

----------------------------------------------------------------------------
(* Claims about the synthesis. *)

RECURSIVE AmplitudeTotal(_, _)
\* the sum of the first n overtone amplitudes
AmplitudeTotal(ots, n) ==
    IF n = 0 THEN 0 ELSE AmplitudeTotal(ots, n - 1) + ots[n]

\* C18: the harmonic with index i is summed exactly when freq * (i + 1) is
\* strictly below half the sample rate, and the divisor is the sum of all
\* overtone amplitudes, summed or not
C18_NyquistLimit ==
    (pc = "wave_done" /\ ~wave.none) =>
        /\ \A i \in 0..(Len(overtones) - 1) :
              i \in wave.harmonics <=>
                  2 * wave.freq * (i + 1) < sample_rate
        /\ wave.harmonics \subseteq 0..(Len(overtones) - 1)
        /\ wave.divisor = AmplitudeTotal(overtones, Len(overtones))

\* C18 witness: at 44100 Hz the fundamental 11025 Hz is summed and its
\* second harmonic, exactly at 22050 Hz, is not; the divisor is the sum of
\* all five amplitudes
C18_Witness ==
    /\ pc = "wave_done"
    /\ sample_rate = DefaultSampleRate
    /\ wave.freq = 11025
    /\ overtones = <<100, 60, 30, 10, 5>>
    /\ wave.harmonics = {0}
    /\ wave.divisor = 205

\* C16: rendering a voice list never raises, and a file is written: also
\* for a voice of rests only
C16_RenderNeverRaises ==
    /\ pc # "error"
    /\ pc = "mix_done" => wav.written

----------------------------------------------------------------------------
(* Claims about repeated calls. *)

\* the tracks of the file that leave a note open at their end
LeavesNoteOpen ==
    \E i \in 1..Len(tracks_data) :
        pair_from(pair_start, tracks_data[i], 1).active_notes # NoActiveNotes

\* C17: a further call of get_parsed_notes returns the list the first call
\* returned and no step of the calls changes tracks_data or tempo_map; a
\* further call of parse with the same score returns the list the first
\* call returned
C17_RepeatedCalls ==
    /\ [][tracks_data' = tracks_data /\ tempo_map' = tempo_map]_vars
    /\ []((pc = "done" /\ previous # <<>>) =>
             \A k \in 1..Len(previous) : previous[k] = processed_tracks)
    /\ []((pc = "score_done" /\ previous # <<>>) =>
             \A k \in 1..Len(previous) : previous[k] = merged)

\* C17 witness: the second call of get_parsed_notes has returned the notes
\* of the first, for a track that left a note open
C17_Witness ==
    /\ pc = "done"
    /\ previous # <<>>
    /\ processed_tracks # <<>>
    /\ previous[1] = processed_tracks
    /\ LeavesNoteOpen

----------------------------------------------------------------------------
(* Claims about the bar validation. *)

\* parse is at a barline
AtBarline ==
    pc = "tokens" /\ tok_idx <= Len(tokens) /\ tokens[tok_idx].kind = "bar"

\* the bar being closed calls for a warning
MeterMismatch ==
    /\ validate
    /\ bar_counter > 1
    /\ \/ 1000 * (current_bar_duration - target_bar_len) > UnitsPerBeat
       \/ 1000 * (target_bar_len - current_bar_duration) > UnitsPerBeat

\* C20: a warning is emitted at a barline exactly when validation is
\* enabled, the bar closed is not the first and its beat-length differs
\* from the meter's by more than 0.001, and nowhere else; parse goes on
\* with the next token; the list returned is the one parse returns with
\* validation disabled, which emits no warning
C20_WarningAdvisory ==
    /\ [][/\ AtBarline /\ MeterMismatch =>
                warnings' = Append(warnings, bar_counter)
          /\ AtBarline /\ ~MeterMismatch => warnings' = warnings
          /\ AtBarline =>
                /\ pc' = "tokens" /\ tok_idx' = tok_idx + 1
                /\ raw_events' = raw_events
          /\ (pc = "tokens" /\ pc' = "tokens" /\ ~AtBarline) =>
                warnings' = warnings]_vars
    /\ []((pc = "score_done" /\ previous # <<>>) =>
             /\ merged = previous[1].events
             /\ warnings = <<>>)

\* C20 witness: c2 | c2 | in 4/4: the short first bar passed, the short
\* second bar was warned of, and the parse without validation returned
\* the same two notes
C20_Witness ==
    /\ pc = "score_done"
    /\ target_bar_len = 4 * UnitsPerBeat
    /\ Len(tokens) = 4
    /\ tokens[2].kind = "bar" /\ tokens[4].kind = "bar"
    /\ previous # <<>>
    /\ previous[1].warnings = <<2>>
    /\ Len(merged) = 2
    /\ merged = previous[1].events

----------------------------------------------------------------------------
(* Claims about the decoding of a track. *)

\* the event loop is about to decode an event
AtEvent == pc = "events" /\ pos < track_end

\* the offset of the byte behind the delta time, and that byte
StatusPos == read_variable_length(pos).pos
StatusByte == IF StatusPos < Len(data) THEN data[StatusPos + 1] ELSE 0 - 1

\* the status the event is decoded with and the offset of its data bytes
Status == IF StatusByte >= 128 THEN StatusByte ELSE running_status
DataPos == IF StatusByte >= 128 THEN StatusPos + 1 ELSE StatusPos

\* the file is the header for n tracks and the bytes rest
FileOf(n, rest) == data = HeaderChunk(n, DefaultTicksPerBeat) \o rest

\* C24: the decoding of a track reads no byte behind the declared end of
\* its chunk, and when the track is appended the file stands at that end
C24_LengthBounds ==
    /\ [][tracks_data' # tracks_data => pos' = track_end]_vars
    /\ [](pc \in {"events", "track_done"} => pos <= track_end)

\* C25: F1, F2 and F3 read 1, 2 and 1 data bytes, add no event and no
\* breakpoint and set the running status to 0; a data byte at the place of
\* a status while the running status is 0 adds no event
C25_SystemCommon ==
    [][/\ (AtEvent /\ StatusByte \in 241..243) =>
             /\ pos' = Min(StatusPos + 1 + (IF StatusByte = 242 THEN 2 ELSE 1),
                           Len(data))
             /\ events' = events
             /\ tempo_map' = tempo_map
             /\ running_status' = 0
             /\ pc' = "events"
       /\ (AtEvent /\ running_status = 0 /\ StatusByte \in 0..127) =>
             events' = events]_vars

\* C25 witness: NoteOn 60, F2 with two data bytes, then the data bytes
\* 60, 0 that would close the note under the running status 0x90: the
\* track holds the NoteOn alone
C25_Witness ==
    /\ pc = "done"
    /\ FileOf(2, TrackChunk(NoteOn60 \o SongPosition \o RunningZero)
                   \o TrackChunk(NoteTrack))
    /\ Len(tracks_data) = 2
    /\ Len(tracks_data[1]) = 1
    /\ tracks_data[1][1].type = "note_on"

\* C26: F8..FE read the status byte alone and leave the events, the tempo
\* map and the running status as they were
C26_RealtimeIgnored ==
    [][(AtEvent /\ StatusByte \in 248..254) =>
           /\ pos' = StatusPos + 1
           /\ events' = events
           /\ tempo_map' = tempo_map
           /\ running_status' = running_status]_vars

\* C27: End of Track leaves the event loop with the events decoded so far,
\* and they are appended as the track before any other step
C27_EndOfTrack ==
    [][/\ (/\ AtEvent /\ Status = 255
           /\ DataPos < Len(data) /\ data[DataPos + 1] = 47) =>
             /\ pc' = "track_done"
             /\ events' = events
       /\ pc = "track_done" =>
             /\ pc' = "find_track"
             /\ tracks_data' = Append(tracks_data, events)]_vars

\* C27 witness: NoteOn 60, End of Track, NoteOn 60 with velocity 0 inside
\* one chunk: the track holds the NoteOn alone and no note was closed
C27_Witness ==
    /\ pc = "done"
    /\ FileOf(1, TrackChunk(NoteOn60 \o EndOfTrack \o NoteOnZero))
    /\ Len(tracks_data) = 1
    /\ Len(tracks_data[1]) = 1
    /\ tracks_data[1][1].type = "note_on"
    /\ processed_tracks = <<>>

\* the number of entries of the map tm that equal bp
Breakpoints(tm, bp) == Cardinality({i \in 1..Len(tm) : tm[i] = bp})

\* the note n is timed by the tempo map from a NoteOn and a later NoteOff
\* of a track of the file
TimedByMap(n) ==
    \E j \in 1..Len(tracks_data) :
        \E a, b \in 1..Len(tracks_data[j]) :
            /\ a < b
            /\ tracks_data[j][a].type = "note_on"
            /\ tracks_data[j][b].type = "note_off"
            /\ tracks_data[j][a].note = n.midi
            /\ tracks_data[j][b].note = n.midi
            /\ n.start = tick_to_seconds(tracks_data[j][a].tick)
            /\ n.start + n.dur = tick_to_seconds(tracks_data[j][b].tick)

\* C28: without an override a tempo event at tick T with the three bytes
\* of the value V appends the breakpoint (T, V); the end of parsing keeps
\* the breakpoints and sorts them by tick, or sets (0, 500000) when there
\* is none; every note of every track is timed by that map
C28_TempoMap ==
    /\ [][/\ (/\ AtEvent /\ Status = 255
              /\ DataPos + 4 < Len(data)
              /\ data[DataPos + 1] = 81 /\ data[DataPos + 2] = 3) =>
                tempo_map' =
                    Append(tempo_map,
                           <<abs_tick + read_variable_length(pos).value,
                             65536 * data[DataPos + 3]
                                + 256 * data[DataPos + 4]
                                + data[DataPos + 5]>>)
          /\ (pc = "find_track" /\ pc' = "parsed" /\ target_bpm = 0) =>
                /\ tempo_map' # <<>>
                /\ IsSortedByTick(tempo_map')
                /\ tempo_map = <<>> => tempo_map' = << <<0, 500000>> >>
                /\ tempo_map # <<>> =>
                      /\ Len(tempo_map') = Len(tempo_map)
                      /\ \A i \in 1..Len(tempo_map) :
                            Breakpoints(tempo_map', tempo_map[i])
                                = Breakpoints(tempo_map, tempo_map[i])]_vars
    /\ [](pc = "done" =>
             \A k \in 1..Len(processed_tracks) :
                 \A i \in 1..Len(processed_tracks[k].notes) :
                     TimedByMap(processed_tracks[k].notes[i]))

\* C28 witness: the first track holds a tempo event at tick 10, the second
\* one at tick 0 and a note from tick 0 to tick 20: the map is sorted and
\* the note lasts ten ticks at each tempo
C28_Witness ==
    /\ pc = "done"
    /\ FileOf(2, TrackChunk(NoteOnZero \o TempoAtZero)
                   \o TrackChunk(NoteTrack))
    /\ tempo_map = << <<0, 500000>>, <<10, 200000>> >>
    /\ Len(processed_tracks) = 1
    /\ processed_tracks[1].notes[1].midi = 61
    /\ processed_tracks[1].notes[1].dur = 10 * 500000 + 10 * 200000

\* C30: a NoteOn with velocity 0 appends the event a NoteOff of the same
\* channel and pitch appends, and no NoteOn event has velocity 0
C30_NoteOnZero ==
    /\ [][(/\ AtEvent /\ Status \in 144..159
           /\ DataPos + 1 < Len(data) /\ data[DataPos + 2] = 0) =>
             events' =
                 Append(events,
                        [tick |-> abs_tick + read_variable_length(pos).value,
                         type |-> "note_off", note |-> data[DataPos + 1],
                         ch |-> Status % 16])]_vars
    /\ [](/\ \A i \in 1..Len(events) :
                events[i].type = "note_on" => events[i].vel > 0
          /\ \A j \in 1..Len(tracks_data) :
                \A i \in 1..Len(tracks_data[j]) :
                    tracks_data[j][i].type = "note_on" =>
                        tracks_data[j][i].vel > 0)

\* C30 witness: NoteOn 60 at tick 0 and NoteOn 60 with velocity 0 at tick
\* 10, then once more with velocity 0 under the running status: one note
\* of ten ticks and no second note
C30_Witness ==
    /\ pc = "done"
    /\ FileOf(1, TrackChunk(NoteOn60 \o NoteOnZero \o RunningZero))
    /\ Len(processed_tracks) = 1
    /\ Len(processed_tracks[1].notes) = 1
    /\ processed_tracks[1].notes[1].start = 0
    /\ processed_tracks[1].notes[1].dur = 10 * 500000
    /\ active_notes = NoActiveNotes

----------------------------------------------------------------------------
(* Claims about the variable-length quantity. *)

\* the number of bytes at the start of the file with the continuation bit
LeadingContinued ==
    Cardinality({k \in 1..Len(data) : \A j \in 1..k : data[j] >= 128})

RECURSIVE Pow128(_)
Pow128(n) == IF n = 0 THEN 1 ELSE 128 * Pow128(n - 1)

RECURSIVE GroupSum(_, _)
\* the low seven bits of the bytes i..n, the byte n weighing 1
GroupSum(i, n) ==
    IF i > n THEN 0
    ELSE (data[i] % 128) * Pow128(n - i) + GroupSum(i + 1, n)

\* C29: when N bytes with the continuation bit are followed by a byte
\* without, _read_variable_length reads N + 1 bytes and returns the groups
\* of seven bits of these bytes, the first the most significant
C29_VariableLength ==
    (pc = "vlq_done" /\ LeadingContinued < Len(data)) =>
        /\ pos = LeadingContinued + 1
        /\ abs_tick = GroupSum(1, LeadingContinued + 1)

\* C29 witness: 81 80 02 01: three bytes are read, the value is
\* 1 * 16384 + 0 * 128 + 2 and the byte 01 is left in the file
C29_Witness ==
    /\ pc = "vlq_done"
    /\ data = <<129, 128, 2, 1>>
    /\ pos = 3
    /\ abs_tick = 16386

----------------------------------------------------------------------------
(* Claims about the rendering of the tracks. *)

\* the tracks with index i and j have the same notes and the same channel
SameTrack(i, j) ==
    /\ processed_tracks[i].notes = processed_tracks[j].notes
    /\ processed_tracks[i].channel = processed_tracks[j].channel

\* C22: two tracks with the same notes and the same channel get the same
\* buffer from one MidiSynth, whatever was rendered before each of them
C22_TrackIndependent ==
    \A i, j \in 1..Len(audio_tracks) :
        SameTrack(i, j) => audio_tracks[i] = audio_tracks[j]

\* C22 witness: a track is rendered first and again as the third, after a
\* drum track that set the release time to 0.05 s; both buffers are the
\* same, with the wave of the note 0.65 s long
C22_Witness ==
    /\ Len(audio_tracks) = 3
    /\ SameTrack(1, 3)
    /\ processed_tracks[1].channel = 0
    /\ processed_tracks[2].channel = 9
    /\ processed_tracks[1].notes = <<TrackNote(60, 0, 500000, 100, 0)>>
    /\ audio_tracks[1] = audio_tracks[3]
    /\ audio_tracks[3][1][1].wave.len = 6
    /\ release_time = 150000

----------------------------------------------------------------------------
(* Claims about the selection of a preset. *)

\* C23: once a Synth was constructed with an instrument name that is not a
\* known preset, the construction has failed with an error
C23_UnknownPresetFails ==
    (pc # "construct" /\ instrument \notin PresetNames \cup {NoInstrument})
        => pc = "error"

----------------------------------------------------------------------------
(* Claims about ties without a successor. *)

\* event n is tied and no other event of its frequency starts where it ends
Dangling(n) ==
    /\ raw_events[n].tied
    /\ \A m \in 1..Len(raw_events) :
          ~ /\ m # n
            /\ raw_events[m].freq = raw_events[n].freq
            /\ Abs(raw_events[m].start
                      - (raw_events[n].start + raw_events[n].dur)) < TieEpsilon

\* event n is a note that does not continue a tied note
Unbound(n) ==
    /\ raw_events[n].freq # 0
    /\ ChainHead(raw_events[n].freq, raw_events[n].start)

\* event n is returned as it was built: once for each event parse built
\* with its values, and no more often than there are events of its
\* frequency that start with it (a chain of ties that starts with it can
\* add up to its duration)
EmittedUnchanged(n) ==
    LET returned == {m \in 1..Len(merged) : merged[m] = raw_events[n]}
        built    == {k \in 1..Len(raw_events) :
                        raw_events[k] = raw_events[n]}
        starting == {k \in 1..Len(raw_events) :
                        /\ raw_events[k].freq = raw_events[n].freq
                        /\ raw_events[k].start = raw_events[n].start}
    IN  /\ Cardinality(built) <= Cardinality(returned)
        /\ Cardinality(returned) <= Cardinality(starting)

----------------------------------------------------------------------------
(* Claims about a tie on the closing token of a chord. *)

\* C31, one step: a '>' that closes a chord sets the tie flag of every
\* member when it carries '~'; the flag of every other event, and the
\* flag of the members when it carries none, stay as they were
C31_TieStep ==
    (ReadsToken /\ tokens[tok_idx].kind = "close" /\ in_chord) =>
        /\ Len(raw_events') = Len(raw_events)
        /\ \A n \in 1..Len(raw_events) :
              /\ raw_events'[n].freq = raw_events[n].freq
              /\ raw_events'[n].start = raw_events[n].start
              /\ raw_events'[n].tied =
                    IF tokens[tok_idx].tie /\ n \in MemberEvents THEN TRUE
                    ELSE raw_events[n].tied

\* the events other than n of the frequency of event n that start where
\* event n ends
Successors(n) ==
    {m \in 1..Len(raw_events) :
        /\ m # n
        /\ raw_events[m].freq = raw_events[n].freq
        /\ Abs(raw_events[m].start
                  - (raw_events[n].start + raw_events[n].dur)) < TieEpsilon}

\* event n is the only event of its frequency with its start, and the only
\* tied event of its frequency with its end
Alone(n) ==
    \A m \in 1..Len(raw_events) :
        (m # n /\ raw_events[m].freq = raw_events[n].freq) =>
            /\ raw_events[m].start # raw_events[n].start
            /\ raw_events[m].tied =>
                  Abs(raw_events[m].start + raw_events[m].dur
                         - (raw_events[n].start + raw_events[n].dur))
                      >= TieEpsilon

\* the events returned for the frequency and the start of event n
ReturnedFor(n) ==
    {m \in 1..Len(merged) :
        /\ merged[m].freq = raw_events[n].freq
        /\ merged[m].start = raw_events[n].start}

\* event n, tied, is returned once: extended by an event of its frequency
\* that starts at its end, which is then not returned itself, or as it was
\* built when there is none
MergedOnItsOwn(n) ==
    /\ Cardinality(ReturnedFor(n)) = 1
    /\ \A m \in ReturnedFor(n) :
          IF Successors(n) = {}
          THEN merged[m] = raw_events[n]
          ELSE \E s \in Successors(n) :
                  merged[m].dur >= raw_events[n].dur + raw_events[s].dur
    /\ Cardinality({m \in 1..Len(merged) :
                       /\ merged[m].freq = raw_events[n].freq
                       /\ Abs(merged[m].start
                                 - (raw_events[n].start + raw_events[n].dur))
                             < TieEpsilon})
          = IF Successors(n) = {} THEN 0
            ELSE Cardinality(Successors(n)) - 1

\* C31, the result: every member of a chord closed with '~' that is a
\* note, alone with its pitch and not itself the continuation of a tie, is
\* merged with the note of its own frequency that starts at its end,
\* whatever happens to the other members
C31_MembersMerged ==
    pc = "score_done" =>
        \A k \in 1..Len(tokens) :
            (tokens[k].kind = "close" /\ tokens[k].tie
             /\ InChordAt(tokens, k)) =>
                \A q \in MemberTokens(tokens, k) :
                    LET n == EventIndex(tokens, q)
                    IN  (Unbound(n) /\ Alone(n)) =>
                            /\ raw_events[n].tied
                            /\ MergedOnItsOwn(n)

\* C31: a tie on the closing token of a chord ties every member of the
\* chord and no other note, and each member is merged with the following
\* note of its own frequency that starts at its end
C31_ChordTie == [][C31_TieStep]_vars /\ [](C31_MembersMerged)

\* C31 witness: g4 < c4 e >~ < c e at 100 BPM: the g is returned as it
\* was written, and c and e of the chord are each merged with their
\* successor to 1.2 s
C31_Witness ==
    /\ pc = "score_done"
    /\ tokens = <<Note("g", 4, 0, FALSE), Open, Note("c", 4, 0, FALSE),
                  Note("e", 0, 0, FALSE), Close(0, 0, TRUE), Open,
                  Note("c", 0, 0, FALSE), Note("e", 0, 0, FALSE)>>
    /\ Len(merged) = 3
    /\ merged[1].dur = 600000 /\ ~merged[1].tied
    /\ merged[2].start = 600000 /\ merged[2].dur = 1200000
    /\ merged[3].start = 600000 /\ merged[3].dur = 1200000
    /\ merged[2].freq # merged[3].freq

----------------------------------------------------------------------------
(* Claims about the inherited duration number. *)

\* C32, one step: a note token with a duration number makes it the number
\* in effect, one without leaves the number in effect as it is and lasts
\* the beat length of the last number written before it, with its own
\* dots; a barline leaves the number in effect as it is
C32_InheritStep ==
    ReadsToken =>
        LET token == tokens[tok_idx]
        IN  /\ token.kind = "note" =>
                  /\ last_duration_val' =
                        IF token.dur # 0 THEN token.dur ELSE last_duration_val
                  /\ Len(raw_events') = Len(raw_events) + 1
                  /\ raw_events'[Len(raw_events')].dur =
                        to_seconds(WrittenBeats(tokens, tok_idx))
            /\ token.kind = "bar" => last_duration_val' = last_duration_val

\* the number in effect is the last one written on a token read so far, 4
\* when none was written
C32_InEffect ==
    pc = "tokens" => last_duration_val = DurationInEffect(tokens, tok_idx - 1)

\* C32: a note without a duration number gets the number of the most
\* recent token that carried one, 4 if there was none, and a barline does
\* not reset it
C32_InheritedDuration == [][C32_InheritStep]_vars /\ [](C32_InEffect)

\* C32 witness: c2. | g at 100 BPM: the g behind the barline is a half
\* note of 1.2 s, without the dot of the c
C32_Witness ==
    /\ pc = "score_done"
    /\ tokens = <<Note("c", 2, 1, FALSE), Bar, Note("g", 0, 0, FALSE)>>
    /\ Len(merged) = 2
    /\ merged[1].dur = 1800000
    /\ merged[2].start = 1800000
    /\ merged[2].dur = 1200000

\* C39, one step: a duration number on the '>' of a chord or on a note
\* inside a chord becomes the number in effect; a '>' with dots and no
\* number gives the members the dotted length of the number in effect; a
\* note without a number outside a chord lasts the length of the number in
\* effect
C39_ChordNumberStep ==
    ReadsToken =>
        LET token == tokens[tok_idx]
            inherited(dots) ==
                to_seconds(with_dots(beat_len(last_duration_val), dots))
        IN  /\ (token.kind = "close" /\ in_chord) =>
                  /\ last_duration_val' =
                        IF token.dur # 0 THEN token.dur ELSE last_duration_val
                  /\ (token.dur = 0 /\ token.dots # 0) =>
                        /\ \A n \in MemberEvents :
                              raw_events'[n].dur = inherited(token.dots)
                        /\ current_time' =
                              chord_start_time + inherited(token.dots)
            /\ (token.kind = "note" /\ in_chord) =>
                  last_duration_val' =
                      IF token.dur # 0 THEN token.dur ELSE last_duration_val
            /\ (token.kind = "note" /\ ~in_chord /\ token.dur = 0) =>
                  /\ last_duration_val' = last_duration_val
                  /\ raw_events'[Len(raw_events')].dur = inherited(token.dots)

\* C39: the duration number on a chord's closing token and the number on
\* a note inside a chord are inherited by the notes behind the chord; dots
\* alone on the closing token are applied to the number in effect
C39_ChordNumber == [][C39_ChordNumberStep]_vars

\* C39 witness: < e8 >. g at 100 BPM: the 8 of the member is the number in
\* effect at '>.', which makes the chord a dotted eighth of 0.45 s, and
\* the g behind the chord is an eighth of 0.3 s
C39_Witness ==
    /\ pc = "score_done"
    /\ tokens = <<Open, Note("e", 8, 0, FALSE), Close(0, 1, FALSE),
                  Note("g", 0, 0, FALSE)>>
    /\ Len(merged) = 2
    /\ merged[1].dur = 450000
    /\ merged[2].start = 450000
    /\ merged[2].dur = 300000

----------------------------------------------------------------------------
(* Claims about the quantization. *)

\* C33: every sample written is an integer nearest to the scaled and
\* clipped sample times 32767: it differs from it by at most one half
C33_RoundsToNearest ==
    (pc = "mix_done" /\ wav.written /\ peak(mixed) > 0) =>
        \A i \in 1..Len(wav.frames) :
            LET den == peak(mixed) * GainUnit
                num == clip(mixed[i] * gain, den) * FullScale
            IN  2 * Abs(wav.frames[i] * den - num) <= den

----------------------------------------------------------------------------
(* Claims about the list _process_ties returns. *)

\* C34: the events parse returns are in non-decreasing order of their
\* start times
C34_StartOrdered ==
    pc = "score_done" =>
        \A k \in 1..(Len(merged) - 1) : merged[k].start <= merged[k + 1].start

\* C34 witness: c4~ c4 > c8: the '>' outside a chord puts the cursor back to
\* 0, so the events are built with the starts 0, 0.6, 0; the list returned
\* has the c of 1.2 s merged from the first two and the c8, both at 0
C34_Witness ==
    /\ pc = "score_done"
    /\ tokens = <<Note("c", 4, 0, TRUE), Note("c", 4, 0, FALSE),
                  Close(0, 0, FALSE), Note("c", 8, 0, FALSE)>>
    /\ raw_events[2].start > raw_events[3].start
    /\ Len(merged) = 2
    /\ merged[1].start = 0 /\ merged[1].dur = 1200000
    /\ merged[2].start = 0 /\ merged[2].dur = 300000

RECURSIVE SoundingTime(_)
\* the sum of the durations of the events of evs that are not rests
SoundingTime(evs) ==
    IF evs = <<>> THEN 0
    ELSE (IF Head(evs).freq # 0 THEN Head(evs).dur ELSE 0)
            + SoundingTime(Tail(evs))

\* the indices of the events of evs that are not rests
Sounding(evs) == {n \in 1..Len(evs) : evs[n].freq # 0}

\* the events that were merged into another: skip at the end of
\* _process_ties
Merges == tie_skip(sort_by_start(raw_events), 1, {})

\* C36: the events returned last as long in sum as the notes parse built,
\* there is one event less than notes for each merge, and only notes are
\* merged
C36_ConservesSound ==
    pc = "score_done" =>
        /\ SoundingTime(merged) = SoundingTime(raw_events)
        /\ Len(merged) = Cardinality(Sounding(raw_events)) - Cardinality(Merges)
        /\ Merges \subseteq Sounding(sort_by_start(raw_events))
        /\ \A m \in 1..Len(merged) : merged[m].freq # 0

\* C36 witness: c4~ c~ c4 e8~: three notes of 0.6 s become one event of
\* 1.8 s by two merges, the tied e8 without successor stays as it is, and
\* the sum is the 2.1 s of the four notes
C36_Witness ==
    /\ pc = "score_done"
    /\ tokens = <<Note("c", 4, 0, TRUE), Note("c", 0, 0, TRUE),
                  Note("c", 4, 0, FALSE), Note("e", 8, 0, TRUE)>>
    /\ Len(merged) = 2
    /\ Cardinality(Merges) = 2
    /\ merged[1].dur = 1800000
    /\ merged[2].dur = 300000
    /\ SoundingTime(raw_events) = 2100000

----------------------------------------------------------------------------
(* Claims about rests. *)

\* C37, one step: a note token, a rest as well as a note, is appended as
\* an event at the cursor and moves the cursor and the length of the bar
\* on by its duration, or, in a chord, starts with the chord and moves
\* neither; the event of a rest has the frequency 0
C37_RestStep ==
    (ReadsToken /\ tokens[tok_idx].kind = "note") =>
        LET token == tokens[tok_idx]
            dq == WrittenBeats(tokens, tok_idx)
            event == raw_events'[Len(raw_events')]
        IN  /\ Len(raw_events') = Len(raw_events) + 1
            /\ event.dur = to_seconds(dq)
            /\ event.freq = 0 <=> token.base = "r"
            /\ IF in_chord
               THEN /\ event.start = chord_start_time
                    /\ current_time' = current_time
                    /\ current_bar_duration' = current_bar_duration
               ELSE /\ event.start = current_time
                    /\ current_time' = current_time + to_seconds(dq)
                    /\ current_bar_duration' = current_bar_duration + dq

\* no event returned is a rest, and the notes returned are as many as the
\* notes built less the merges
C37_NoRestReturned ==
    pc = "score_done" =>
        /\ \A m \in 1..Len(merged) : merged[m].freq # 0
        /\ Len(merged) <= Cardinality(Sounding(raw_events))

\* C37: a rest moves the cursor and the bar length like a note and is
\* never returned by parse; the note behind a rest starts at its end
C37_Rests == [][C37_RestStep]_vars /\ [](C37_NoRestReturned)

\* C37 witness: r4 c8 at 100 BPM: the bar holds one and a half beats, the
\* cursor is at 0.9 s, and the only event returned is the c, which starts
\* at the 0.6 s where the rest ends
C37_Witness ==
    /\ pc = "score_done"
    /\ tokens = <<Note("r", 4, 0, FALSE), Note("c", 8, 0, FALSE)>>
    /\ Len(raw_events) = 2
    /\ raw_events[1].freq = 0
    /\ Len(merged) = 1
    /\ merged[1].start = 600000
    /\ current_time = 900000
    /\ current_bar_duration = UnitsPerBeat + UnitsPerBeat \div 2

----------------------------------------------------------------------------
(* Claims about the pairing state of a track                                *)

\* the k-th smallest member of a set of numbers
Nth(S, k) == CHOOSE x \in S : Cardinality({y \in S : y <= x}) = k

\* the tracks of the file that close a note with their own events
ClosingTracks ==
    {t \in 1..Len(tracks_data) : ClosingOffs(tracks_data[t]) # {}}

\* the notes of the entry are those the track's own events open and close
OwnNotes(entry, tr) ==
    /\ Len(entry.notes) = Cardinality(ClosingOffs(tr))
    /\ \A j \in 1..Len(entry.notes) :
          LET m  == Nth(ClosingOffs(tr), j)
              on == OpenOnset(tr, m, KeyOf(tr[m]))
          IN  /\ entry.notes[j].midi = tr[m].note
              /\ entry.notes[j].ch = tr[m].ch
              /\ entry.notes[j].vel = tr[on].vel
              /\ entry.notes[j].start = tick_to_seconds(tr[on].tick)
              /\ entry.notes[j].dur = tick_to_seconds(tr[m].tick)
                                         - tick_to_seconds(tr[on].tick)

C38_TrackStep ==
    LET tr == tracks_data[track_idx]
        e  == tr[ev_idx]
    IN  /\ (pc = "next_track" /\ pc' = "pairing") =>
              active_notes' = NoActiveNotes /\ notes' = <<>>
        /\ (pc = "pairing" /\ ev_idx <= Len(tr) /\ e.type = "note_off"
               /\ OpenOnset(tr, ev_idx, KeyOf(e)) = 0) =>
              UNCHANGED <<active_notes, notes, processed_tracks>>

C38_OwnTrack ==
    pc = "done" =>
       /\ Len(processed_tracks) = Cardinality(ClosingTracks)
       /\ \A k \in 1..Len(processed_tracks) :
             OwnNotes(processed_tracks[k],
                      tracks_data[Nth(ClosingTracks, k)])

\* C38: the active-note map starts empty for every track, so a NoteOn of
\* one track is never closed by a NoteOff of another; a NoteOff whose
\* (channel, pitch) has no unmatched NoteOn in its own track emits nothing
\* and changes no pairing state; the result has one entry for each track
\* that closes a note of its own, and none for a track that closes none.
C38_TrackLocal == [][C38_TrackStep]_vars /\ [](C38_OwnTrack)

\* C38 witness: NoteOn in the first track, NoteOff in the second, both in
\* the third: the result is the one entry of the third track
C38_Witness ==
    /\ pc = "done"
    /\ tracks_data = <<TrackOf(<<OnStep>>), TrackOf(<<OffStep>>),
                       TrackOf(<<OnStep, OffStep>>)>>
    /\ Len(processed_tracks) = 1
    /\ Len(processed_tracks[1].notes) = 1
    /\ processed_tracks[1].notes[1].start = 0

----------------------------------------------------------------------------
(* Claims about the termination of the decoder                              *)

C35_ProgressStep ==
    /\ (pc = "events" /\ pos < track_end) =>
          \/ pc' = "error"
          \/ pos' >= pos + 1 /\ pos' <= Len(data)
    /\ (pc = "find_track" /\ tracks_left > 0) =>
          \/ pc' = "events" /\ pos' >= pos + 4 /\ pos' <= Len(data)
          \/ pc' = "find_track" /\ pos' = Len(data)
                 /\ tracks_left' = tracks_left - 1

\* the decoder has returned or raised
Ended == pc \in {"parsed", "error"}

\* C35: _parse_track terminates on every finite input: each iteration of
\* the event loop moves the read position on by at least one byte or
\* raises at the end of the input, whatever the status byte is; the search
\* for the next track tag finds a tag further on or ends at the end of
\* the input; so every run of the decoder comes to its end.
C35_Terminates == [][C35_ProgressStep]_vars /\ <>Ended

\* C35 witness: the body 00 2F F4 was read in two iterations: a data byte
\* without running status, then the delta time 47 and the status F4; the
\* position is the end of the track
C35_Witness ==
    /\ pc = "events"
    /\ data = HeaderChunk(2, DefaultTicksPerBeat)
                 \o TrackChunkOf(3, <<0, 47, 244>>)
    /\ pos = Len(data) /\ pos = track_end
    /\ running_status = 244
    /\ abs_tick = 47
    /\ events = <<>>

----------------------------------------------------------------------------
(* Claims about DiatonicTransposer.transpose_text                           *)

\* base index and accidental of a name of the language: the entry of the
\* note map; for a name with more than two sharps or flats, the letter and
\* the number of its "is" or "es"
ReadName(lang, name) ==
    IF name \in DOMAIN note_maps[lang] THEN note_maps[lang][name]
    ELSE LET base == IF Head(name) = "h" THEN 6
                     ELSE CHOOSE b \in Bases : std_chars[b + 1] = Head(name)
         IN  <<base, count(Tail(name), "i") - count(Tail(name), "e")>>

\* the note a token stands for in the language
ReadNote(lang, token) ==
    [base_idx   |-> ReadName(lang, letters_of(token))[1],
     accidental |-> ReadName(lang, letters_of(token))[2],
     octave     |-> count(marks_of(token), "'") - count(marks_of(token), ",")]

DiatonicPosition(n) == 7 * n.octave + n.base_idx
ChromaticPitch(n) ==
    12 * n.octave + NATURAL_SEMITONES[n.base_idx + 1] + n.accidental

\* the text is a note of the input language
ValidNote(t) == letters_of(t) \in DOMAIN note_map

\* transpose_text has returned out_text for text
Transposed == pc \in {"transposed", "returned"}

C40_MovedByInterval ==
    (Transposed /\ ValidNote(text)) =>
       LET old == ReadNote(input_lang, text)
           new == ReadNote(output_lang, out_text)
       IN  /\ DiatonicPosition(new) = DiatonicPosition(old) + interval_steps
           /\ ChromaticPitch(new) = ChromaticPitch(old) + interval_semitones

C40_RoundTrip ==
    (pc = "returned" /\ input_lang = output_lang
        /\ letters_of(previous[1].text) \in DOMAIN note_map
        /\ ReadNote(output_lang, previous[1].out_text).accidental
              \in Accidentals) =>
       out_text = previous[1].text

\* C40: transpose_text moves every valid note by the interval: the
\* diatonic position 7 * octave + base of the output is that of the input
\* plus the steps and its chromatic pitch 12 * octave + natural semitone +
\* accidental is that of the input plus the semitones, upwards and
\* downwards; transposing the output by the negated interval with one
\* language for input and output gives the original name back whenever the
\* accidental in between is within -2..2.
C40_ExactInterval == C40_MovedByInterval /\ C40_RoundTrip

\* C40 witness: German "b," (B flat) went down a minor second to "a," and
\* back up to "b,"
C40_Witness ==
    /\ pc = "returned"
    /\ input_lang = "de" /\ output_lang = "de"
    /\ previous = <<[text |-> <<"b", ",">>, out_text |-> <<"a", ",">>]>>
    /\ interval_steps = 1 /\ interval_semitones = 1
    /\ out_text = <<"b", ",">>

====
